---- MODULE Spec2Model ----
(***************************************************************************)
(* Ice cream catalog: the in-memory store (IceCreamStore), the zod         *)
(* validation schemas and the service operations over them.                *)
(*                                                                         *)
(* JavaScript values are tagged records [t, v]; objects are functions from *)
(* key strings to values, so that a missing key (undefined), null and a    *)
(* value are three different things.  Names (nome_sorvete, nome_categoria) *)
(* are sequences of code points, because they are collated; every other    *)
(* string is a TLA+ string.                                                *)
(***************************************************************************)
EXTENDS Integers, Sequences, FiniteSets, TLC

VARIABLES products, categories, currentCategoryId, clock, uuidsIssued, handedOut, epochStart, last,
          calls, running

vars == <<products, categories, currentCategoryId, clock, uuidsIssued, handedOut, epochStart, last,
         calls, running>>

storeVars == <<products, categories, currentCategoryId>>

(***************************************************************************)
(* Bounds of the model.                                                    *)
(***************************************************************************)
MaxUuids == 2

MaxHandedOut == 6

MaxClock == 1

MaxCallers == 2

(***************************************************************************)
(* JavaScript values.                                                      *)
(***************************************************************************)
Undefined == [t |-> "undefined"]

Null == [t |-> "null"]

Str(s) == [t |-> "string", v |-> s]

Num(n) == [t |-> "number", v |-> n]

Bool(b) == [t |-> "boolean", v |-> b]

Obj(f) == [t |-> "object", v |-> f]

Arr(s) == [t |-> "array", v |-> s]

EmptyObject == [k \in {} |-> Undefined]

Prop(o, k) == IF o.t = "object" /\ k \in DOMAIN o.v THEN o.v[k] ELSE Undefined

\* Variant: x || d in place of x ?? d, every falsy value gives way to the default.
CoalesceOr(x, d) ==
  IF x = Undefined \/ x = Null \/ x = Bool(FALSE) \/ x = Num(0) \/ x = Str("") THEN d ELSE x

Coalesce(x, d) == IF x = Undefined \/ x = Null THEN d ELSE x

Spread(a, b) == [k \in (DOMAIN a) \cup (DOMAIN b) |-> IF k \in DOMAIN b THEN b[k] ELSE a[k]]

(***************************************************************************)
(* Constants (constants/iceCreamCatalog/iceCreamDefaults.ts).              *)
(***************************************************************************)
MAX_PRODUCTS == 500

NAME_MIN_LENGTH == 1

NAME_MAX_LENGTH == 50

DESCRIPTION_MAX_LENGTH == 200

AVAILABILITY_NOTE_MAX_LENGTH == 100

INGREDIENT_MAX_LENGTH == 50

MAX_SECONDARY_INGREDIENTS == 10

CATEGORY_NAME_MAX_LENGTH == 30

CATEGORY_DESCRIPTION_MAX_LENGTH == 100

ICE_CREAM_DEFAULTS ==
  [ACTIVE |-> Bool(TRUE), DISPLAY_PRICES |-> Bool(TRUE), FEATURED |-> Bool(FALSE),
   AVAILABILITY_STATUS |-> Str("disponivel"), NUTRITIONAL_LEVEL |-> Str("basico")]

ICE_CREAM_AVAILABILITY_STATUS == {"disponivel", "indisponivel", "limitado"}

ICE_CREAM_NUTRITIONAL_LEVEL == {"nenhum", "basico", "completo"}

ICE_CREAM_PRICE_FORMAT == {"peso", "tamanho", "unidade"}

ICE_CREAM_ALLERGENS == {"leite", "ovos", "amendoim", "nozes", "soja", "gluten"}

ICE_CREAM_DIETARY_RESTRICTIONS == {"vegano", "vegetariano", "sem_lactose", "sem_gluten", "diet"}

\* Code points of 'Tradicionais', 'Especiais', 'Diet/Light', 'Veganos', 'Açaí'.
ICE_CREAM_DEFAULT_CATEGORIES ==
  << [name |-> <<84, 114, 97, 100, 105, 99, 105, 111, 110, 97, 105, 115>>, order |-> 1],
     [name |-> <<69, 115, 112, 101, 99, 105, 97, 105, 115>>, order |-> 2],
     [name |-> <<68, 105, 101, 116, 47, 76, 105, 103, 104, 116>>, order |-> 3],
     [name |-> <<86, 101, 103, 97, 110, 111, 115>>, order |-> 4],
     [name |-> <<65, 231, 97, 237>>, order |-> 5] >>

(***************************************************************************)
(* Strings the requests are built from.                                    *)
(***************************************************************************)
\* The n-th well-formed version-4 UUID string.
UuidOf(n) == "00000000-0000-4000-8000-00000000" \o ToString(1000 + n)

NotAUuid == "not-a-uuid"

UrlA == "https://cdn.example.com/a.png"

UrlB == "https://cdn.example.com/b.png"

NotAUrl == "not a url"

\* 201 characters: one more than DESCRIPTION_MAX_LENGTH.
LongDescription == "ddddddddddddddddddddddddddddddddddddddddddddddddddddddddddddddddddddddddddddddddddddddddddddddddddddddddddddddddddddddddddddddddddddddddddddddddddddddddddddddddddddddddddddddddddddddddddddddddddddddddd"

\* 101 characters: one more than AVAILABILITY_NOTE_MAX_LENGTH.
LongNote == "ooooooooooooooooooooooooooooooooooooooooooooooooooooooooooooooooooooooooooooooooooooooooooooooooooooo"

\* 'Óleo', 'Zabaione', 'oleo' and a name of NAME_MAX_LENGTH + 1 characters.
NameOleoAcute == <<211, 108, 101, 111>>

NameZabaione == <<90, 97, 98, 97, 105, 111, 110, 101>>

NameOleo == <<111, 108, 101, 111>>

NameTooLong == [i \in 1..51 |-> 97]

\* 'Test', 'Sazonais' and a name of CATEGORY_NAME_MAX_LENGTH + 1 characters.
CatNameTest == <<84, 101, 115, 116>>

CatNameSazonais == <<83, 97, 122, 111, 110, 97, 105, 115>>

CatNameTooLong == [i \in 1..31 |-> 97]

(***************************************************************************)
(* zod primitives (services/iceCreamCatalog/iceCreamValidation.ts).        *)
(***************************************************************************)
\* Strings matching zod's uuid pattern, among the strings of the model.
UuidStrings == {UuidOf(n) : n \in 1..MaxUuids} \cup {UuidOf(1000 + n) : n \in 1..MAX_PRODUCTS}

\* Strings the URL constructor accepts, among the strings of the model.
UrlStrings == {UrlA, UrlB}

ZString(x, min, max) == x.t = "string" /\ Len(x.v) >= min /\ Len(x.v) <= max

ZUrl(x) == x.t = "string" /\ x.v \in UrlStrings

ZUuid(x) == x.t = "string" /\ x.v \in UuidStrings

ZBoolean(x) == x.t = "boolean"

ZPositive(x) == x.t = "number" /\ x.v > 0

ZNonNegative(x) == x.t = "number" /\ x.v >= 0

ZEnum(x, values) == x.t = "string" /\ x.v \in values

ZNullable(P(_), x) == x = Null \/ P(x)

ZOptional(P(_), x) == x = Undefined \/ P(x)

ZArray(P(_), x) == x.t = "array" /\ \A i \in 1..Len(x.v) : P(x.v[i])

ZRecord(P(_), x) == x.t = "object" /\ \A k \in DOMAIN x.v : P(x.v[k])

\* z.object strips the keys that are not in its shape.
Strip(x, keys) == Obj([k \in (DOMAIN x.v) \cap keys |-> x.v[k]])

IsDigit(c) == c >= 48 /\ c <= 57

RECURSIVE ParseDecimal(_)
ParseDecimal(s) ==
  IF Len(s) = 0 THEN 0 ELSE 10 * ParseDecimal(SubSeq(s, 1, Len(s) - 1)) + (s[Len(s)] - 48)

NaN == [t |-> "NaN"]

\* z.coerce.number() applies Number() to the input before validating it.
CoerceNumber(x) ==
  CASE x.t = "number" -> x
    [] x.t = "string" -> IF \A i \in 1..Len(x.v) : IsDigit(x.v[i]) THEN Num(ParseDecimal(x.v)) ELSE NaN
    [] x.t = "null" -> Num(0)
    [] x.t = "boolean" -> Num(IF x.v THEN 1 ELSE 0)
    [] OTHER -> NaN

(***************************************************************************)
(* Schemas: <name>Valid is safeParse(...).success, <name>Data is .data.    *)
(***************************************************************************)
MetadataKeys == {"ingrediente_principal", "ingredientes_secundarios", "alergenicos", "restricoes_alimentares"}

metadataSchemaValid(x) ==
  /\ x.t = "object"
  /\ ZString(Prop(x, "ingrediente_principal"), 1, INGREDIENT_MAX_LENGTH)
  /\ ZOptional(LAMBDA a : /\ ZArray(LAMBDA e : ZString(e, 0, INGREDIENT_MAX_LENGTH), a)
                          /\ Len(a.v) <= MAX_SECONDARY_INGREDIENTS,
               Prop(x, "ingredientes_secundarios"))
  /\ ZOptional(LAMBDA a : ZArray(LAMBDA e : ZEnum(e, ICE_CREAM_ALLERGENS), a), Prop(x, "alergenicos"))
  /\ ZOptional(LAMBDA a : ZArray(LAMBDA e : ZEnum(e, ICE_CREAM_DIETARY_RESTRICTIONS), a),
               Prop(x, "restricoes_alimentares"))

PriceBySizeKeys == {"pequeno", "medio", "grande"}

priceBySizeSchemaValid(x) ==
  ZNullable(LAMBDA o : /\ o.t = "object"
                       /\ \A k \in PriceBySizeKeys : ZOptional(ZPositive, Prop(o, k)), x)

BasicNutritionKeys == {"calorias", "gorduras", "carboidratos", "proteinas"}

basicNutritionSchemaValid(x) ==
  ZNullable(LAMBDA o : /\ o.t = "object"
                       /\ \A k \in BasicNutritionKeys : ZNonNegative(Prop(o, k)), x)

CompleteNutritionKeys == BasicNutritionKeys \cup {"fibras", "sodio", "acucares", "vitaminas", "minerais"}

completeNutritionSchemaValid(x) ==
  ZNullable(LAMBDA o : /\ o.t = "object"
                       /\ \A k \in BasicNutritionKeys : ZNonNegative(Prop(o, k))
                       /\ \A k \in {"fibras", "sodio", "acucares"} : ZOptional(ZNonNegative, Prop(o, k))
                       /\ \A k \in {"vitaminas", "minerais"} :
                            ZOptional(LAMBDA r : ZRecord(ZNonNegative, r), Prop(o, k)), x)

IceCreamKeys ==
  {"nome_sorvete", "descricao", "categoria_id", "imagem_url", "disponibilidade_status",
   "disponibilidade_observacao", "destaque", "preco_por_peso", "preco_por_tamanho",
   "preco_por_unidade", "exibir_precos", "formato_preco_principal", "metadata",
   "nivel_detalhamento_nutricional", "informacoes_nutricionais_basicas",
   "informacoes_nutricionais_completas"}

\* The nested object schemas strip unknown keys as well.
StripNested(k, x) ==
  CASE x.t # "object" -> x
    [] k = "metadata" -> Strip(x, MetadataKeys)
    [] k = "preco_por_tamanho" -> Strip(x, PriceBySizeKeys)
    [] k = "informacoes_nutricionais_basicas" -> Strip(x, BasicNutritionKeys)
    [] k = "informacoes_nutricionais_completas" -> Strip(x, CompleteNutritionKeys)
    [] OTHER -> x

iceCreamCreateSchemaValid(x) ==
  /\ x.t = "object"
  /\ ZString(Prop(x, "nome_sorvete"), NAME_MIN_LENGTH, NAME_MAX_LENGTH)
  /\ ZString(Prop(x, "descricao"), 0, DESCRIPTION_MAX_LENGTH)
  /\ ZPositive(Prop(x, "categoria_id"))
  /\ ZUrl(Prop(x, "imagem_url"))
  /\ ZOptional(LAMBDA y : ZEnum(y, ICE_CREAM_AVAILABILITY_STATUS), Prop(x, "disponibilidade_status"))
  /\ ZOptional(LAMBDA y : ZNullable(LAMBDA z : ZString(z, 0, AVAILABILITY_NOTE_MAX_LENGTH), y),
               Prop(x, "disponibilidade_observacao"))
  /\ ZOptional(ZBoolean, Prop(x, "destaque"))
  /\ ZOptional(LAMBDA y : ZNullable(ZPositive, y), Prop(x, "preco_por_peso"))
  /\ ZOptional(priceBySizeSchemaValid, Prop(x, "preco_por_tamanho"))
  /\ ZOptional(LAMBDA y : ZNullable(ZPositive, y), Prop(x, "preco_por_unidade"))
  /\ ZOptional(ZBoolean, Prop(x, "exibir_precos"))
  /\ ZOptional(LAMBDA y : ZNullable(LAMBDA z : ZEnum(z, ICE_CREAM_PRICE_FORMAT), y),
               Prop(x, "formato_preco_principal"))
  /\ metadataSchemaValid(Prop(x, "metadata"))
  /\ ZOptional(LAMBDA y : ZEnum(y, ICE_CREAM_NUTRITIONAL_LEVEL), Prop(x, "nivel_detalhamento_nutricional"))
  /\ ZOptional(basicNutritionSchemaValid, Prop(x, "informacoes_nutricionais_basicas"))
  /\ ZOptional(completeNutritionSchemaValid, Prop(x, "informacoes_nutricionais_completas"))

PriceKeys == {"preco_por_peso", "preco_por_tamanho", "preco_por_unidade"}

\* Variant: a refinement keeps only the price that formato_preco_principal
\* names and nulls the other prices.
iceCreamCreateSchemaDataPriceTied(x) ==
  Obj([k \in (DOMAIN x.v) \cap IceCreamKeys |->
         IF k \in PriceKeys /\ Prop(x, "formato_preco_principal") \in {Str("peso"), Str("tamanho"), Str("unidade")}
                           /\ k # "preco_por_" \o Prop(x, "formato_preco_principal").v
         THEN Null
         ELSE StripNested(k, x.v[k])])

iceCreamCreateSchemaData(x) ==
  Obj([k \in (DOMAIN x.v) \cap IceCreamKeys |-> StripNested(k, x.v[k])])

iceCreamUpdateSchemaValid(x) ==
  /\ x.t = "object"
  /\ ZString(Prop(x, "nome_sorvete"), NAME_MIN_LENGTH, NAME_MAX_LENGTH)
  /\ ZString(Prop(x, "descricao"), 0, DESCRIPTION_MAX_LENGTH)
  /\ ZPositive(Prop(x, "categoria_id"))
  /\ ZUrl(Prop(x, "imagem_url"))
  /\ ZEnum(Prop(x, "disponibilidade_status"), ICE_CREAM_AVAILABILITY_STATUS)
  /\ ZNullable(LAMBDA z : ZString(z, 0, AVAILABILITY_NOTE_MAX_LENGTH), Prop(x, "disponibilidade_observacao"))
  /\ ZBoolean(Prop(x, "destaque"))
  /\ ZNullable(ZPositive, Prop(x, "preco_por_peso"))
  /\ priceBySizeSchemaValid(Prop(x, "preco_por_tamanho"))
  /\ ZNullable(ZPositive, Prop(x, "preco_por_unidade"))
  /\ ZBoolean(Prop(x, "exibir_precos"))
  /\ ZNullable(LAMBDA z : ZEnum(z, ICE_CREAM_PRICE_FORMAT), Prop(x, "formato_preco_principal"))
  /\ metadataSchemaValid(Prop(x, "metadata"))
  /\ ZEnum(Prop(x, "nivel_detalhamento_nutricional"), ICE_CREAM_NUTRITIONAL_LEVEL)
  /\ basicNutritionSchemaValid(Prop(x, "informacoes_nutricionais_basicas"))
  /\ completeNutritionSchemaValid(Prop(x, "informacoes_nutricionais_completas"))

\* Variant: the keys that are not in the schema are passed through.
iceCreamUpdateSchemaDataPassthrough(x) == x

iceCreamUpdateSchemaData(x) ==
  Obj([k \in (DOMAIN x.v) \cap IceCreamKeys |-> StripNested(k, x.v[k])])

productParamsSchemaValid(x) == x.t = "object" /\ ZUuid(Prop(x, "produto_id"))

productParamsSchemaData(x) == Strip(x, {"produto_id"})

CategoryKeys == {"nome_categoria", "descricao_categoria", "ordem_exibicao", "ativa"}

categoryCreateSchemaValid(x) ==
  /\ x.t = "object"
  /\ ZString(Prop(x, "nome_categoria"), 1, CATEGORY_NAME_MAX_LENGTH)
  /\ ZOptional(LAMBDA y : ZNullable(LAMBDA z : ZString(z, 0, CATEGORY_DESCRIPTION_MAX_LENGTH), y),
               Prop(x, "descricao_categoria"))
  /\ ZOptional(ZPositive, Prop(x, "ordem_exibicao"))
  /\ ZOptional(ZBoolean, Prop(x, "ativa"))

categoryCreateSchemaData(x) == Strip(x, CategoryKeys)

categoryUpdateSchemaValid(x) ==
  /\ x.t = "object"
  /\ ZString(Prop(x, "nome_categoria"), 1, CATEGORY_NAME_MAX_LENGTH)
  /\ ZNullable(LAMBDA z : ZString(z, 0, CATEGORY_DESCRIPTION_MAX_LENGTH), Prop(x, "descricao_categoria"))
  /\ ZPositive(Prop(x, "ordem_exibicao"))
  /\ ZBoolean(Prop(x, "ativa"))

\* Variant: the keys that are not in the category schema are passed through.
categoryUpdateSchemaDataPassthrough(x) == x

categoryUpdateSchemaData(x) == Strip(x, CategoryKeys)

categoryParamsSchemaValid(x) == x.t = "object" /\ ZPositive(CoerceNumber(Prop(x, "categoria_id")))

categoryParamsSchemaData(x) == Obj([categoria_id |-> CoerceNumber(Prop(x, "categoria_id"))])

categoryFilterSchemaValid(x) ==
  /\ x.t = "object"
  /\ ZOptional(LAMBDA y : ZPositive(CoerceNumber(y)), Prop(x, "categoria_id"))

categoryFilterSchemaData(x) ==
  IF Prop(x, "categoria_id") = Undefined THEN Obj(EmptyObject)
  ELSE Obj([categoria_id |-> CoerceNumber(Prop(x, "categoria_id"))])

(***************************************************************************)
(* String.prototype.localeCompare on names: the collation compares the     *)
(* base letters first, then the accents, then the case.                    *)
(***************************************************************************)
IsUpper(c) == (c >= 65 /\ c <= 90) \/ (c >= 192 /\ c <= 222)

\* The unaccented lower-case letter of a code point.
BaseLetter(c) ==
  CASE c \in {192, 193, 194, 195, 224, 225, 226, 227} -> 97
    [] c \in {199, 231} -> 99
    [] c \in {201, 202, 233, 234} -> 101
    [] c \in {205, 237} -> 105
    [] c \in {211, 212, 213, 243, 244, 245} -> 111
    [] c \in {218, 250} -> 117
    [] c >= 65 /\ c <= 90 -> c + 32
    [] OTHER -> c

Accent(c) == IF c >= 192 THEN c - (IF IsUpper(c) THEN 192 ELSE 224) + 1 ELSE 0

CaseWeight(c) == IF IsUpper(c) THEN 1 ELSE 0

RECURSIVE CompareSeq(_, _)
CompareSeq(a, b) ==
  CASE Len(a) = 0 /\ Len(b) = 0 -> 0
    [] Len(a) = 0 -> -1
    [] Len(b) = 0 -> 1
    [] a[1] < b[1] -> -1
    [] a[1] > b[1] -> 1
    [] OTHER -> CompareSeq(Tail(a), Tail(b))

\* Variant: the names are compared by their code units.
LocaleCompareCodeUnits(a, b) == CompareSeq(a, b)

LocaleCompare(a, b) ==
  LET primary == CompareSeq([i \in 1..Len(a) |-> BaseLetter(a[i])], [i \in 1..Len(b) |-> BaseLetter(b[i])])
      secondary == CompareSeq([i \in 1..Len(a) |-> Accent(a[i])], [i \in 1..Len(b) |-> Accent(b[i])])
      tertiary == CompareSeq([i \in 1..Len(a) |-> CaseWeight(a[i])], [i \in 1..Len(b) |-> CaseWeight(b[i])])
  IN  IF primary # 0 THEN primary ELSE IF secondary # 0 THEN secondary ELSE tertiary

(***************************************************************************)
(* Map<K, V>: a sequence of entries in insertion order.                    *)
(***************************************************************************)
MapHas(m, k) == \E i \in 1..Len(m) : m[i].key = k

MapIndex(m, k) == CHOOSE i \in 1..Len(m) : m[i].key = k

MapGet(m, k) == IF MapHas(m, k) THEN m[MapIndex(m, k)].value ELSE Undefined

MapSet(m, k, val) ==
  IF MapHas(m, k) THEN [m EXCEPT ![MapIndex(m, k)] = [key |-> k, value |-> val]]
  ELSE Append(m, [key |-> k, value |-> val])

MapDelete(m, k) == SelectSeq(m, LAMBDA e : e.key # k)

MapValues(m) == [i \in 1..Len(m) |-> m[i].value]

(***************************************************************************)
(* IceCreamStore (instances/iceCreamCatalog/iceCreamStore.ts).             *)
(***************************************************************************)
\* Date.prototype.toISOString, reduced to the millisecond field: the rest
\* of the timestamp is the same for every instant of the bounded clock.
ToISOString(ms) == Str(<<48 + ((ms \div 100) % 10), 48 + ((ms \div 10) % 10), 48 + (ms % 10)>>)

\* Variant: the counter is returned without being incremented.
getNextCategoryIdNoIncrement(counter) == counter

\* The value getNextCategoryId stores in currentCategoryId and returns.
getNextCategoryId(counter) == counter + 1

RECURSIVE initializeDefaultCategories(_, _, _)
initializeDefaultCategories(i, now, st) ==
  IF i > Len(ICE_CREAM_DEFAULT_CATEGORIES) THEN st
  ELSE LET cat == ICE_CREAM_DEFAULT_CATEGORIES[i]
           id == getNextCategoryId(st.currentCategoryId)
       IN  initializeDefaultCategories(i + 1, now,
             [currentCategoryId |-> id,
              handedOut |-> Append(st.handedOut, id),
              categories |-> MapSet(st.categories, id,
                 Obj([categoria_id |-> Num(id), nome_categoria |-> Str(cat.name),
                      descricao_categoria |-> Null, ordem_exibicao |-> Num(cat.order),
                      ativa |-> Bool(TRUE), dateCreated |-> now, dateModified |-> now]))])

\* uuidv4() returns an identifier it has not returned before: the n-th call
\* returns the n-th identifier.  uuidsIssued counts the calls.
\* Variant: the identifier is derived from the number of stored products.
getNextProductIdFromSize == UuidOf(Len(products) + 1)

getNextProductId == UuidOf(uuidsIssued + 1)

\* Variant: products whose category is not stored are left out.
getAllProductsCategorised ==
  SelectSeq(MapValues(products),
            LAMBDA product : \E i \in 1..Len(categories) : Num(categories[i].key) = Prop(product, "categoria_id"))

getAllProducts == MapValues(products)

\* Variant: products whose category is not stored are left out of the
\* filtered listing.
getProductsByCategoryStored(categoryId) ==
  SelectSeq(MapValues(products),
            LAMBDA product : /\ Prop(product, "categoria_id") = categoryId
                             /\ \E i \in 1..Len(categories) : categories[i].key = categoryId.v)

getProductsByCategory(categoryId) ==
  SelectSeq(MapValues(products), LAMBDA product : Prop(product, "categoria_id") = categoryId)

getProductById(id) == MapGet(products, id)

\* Variant: the existence check always passes.
productExistsAlways(id) == TRUE

productExists(id) == MapHas(products, id)

\* Variant: the spread is reversed, the existing values win over the new ones.
updateProductKeepExisting(id, data) == MapSet(products, id, Obj(Spread(data, MapGet(products, id).v)))

updateProduct(id, data) == MapSet(products, id, Obj(Spread(MapGet(products, id).v, data)))

deleteProduct(id) == MapDelete(products, id)

\* Variant: the inactive categories are not filtered out.
getActiveCategoriesUnfiltered == MapValues(categories)

getActiveCategories == SelectSeq(MapValues(categories), LAMBDA cat : Prop(cat, "ativa").v)

getCategoryById(id) == MapGet(categories, id)

\* Variant: the existence check always passes.
categoryExistsAlways(id) == TRUE

\* Variant: every id the counter has reached counts as existing.
categoryExistsEverAssigned(categoria_id) == categoria_id \in 1..currentCategoryId

\* Variant: only an active category counts as existing.
categoryExistsActive(id) == MapHas(categories, id) /\ Prop(MapGet(categories, id), "ativa") = Bool(TRUE)

categoryExists(id) == MapHas(categories, id)

updateCategory(id, data) == MapSet(categories, id, Obj(Spread(MapGet(categories, id).v, data)))

deleteCategory(id) == MapDelete(categories, id)

(***************************************************************************)
(* Array.prototype.sort is stable: an insertion sort by the comparator.    *)
(***************************************************************************)
\* Variant: the signs of the featured test are swapped.
ProductCompareSwapped(a, b) ==
  IF Prop(a, "destaque").v /\ ~Prop(b, "destaque").v THEN 1
  ELSE IF ~Prop(a, "destaque").v /\ Prop(b, "destaque").v THEN -1
  ELSE LocaleCompare(Prop(a, "nome_sorvete").v, Prop(b, "nome_sorvete").v)

\* The comparator of iceCreamList.
ProductCompare(a, b) ==
  IF Prop(a, "destaque").v /\ ~Prop(b, "destaque").v THEN -1
  ELSE IF ~Prop(a, "destaque").v /\ Prop(b, "destaque").v THEN 1
  ELSE LocaleCompare(Prop(a, "nome_sorvete").v, Prop(b, "nome_sorvete").v)

\* The comparator of categoryList.
CategoryCompare(a, b) == Prop(a, "ordem_exibicao").v - Prop(b, "ordem_exibicao").v

RECURSIVE SortProducts(_)
SortProducts(s) ==
  IF Len(s) = 0 THEN s
  ELSE LET sorted == SortProducts(SubSeq(s, 1, Len(s) - 1))
           x == s[Len(s)]
           before == {i \in 1..Len(sorted) : ProductCompare(sorted[i], x) <= 0}
           n == IF before = {} THEN 0 ELSE CHOOSE i \in before : \A j \in before : j <= i
       IN  SubSeq(sorted, 1, n) \o <<x>> \o SubSeq(sorted, n + 1, Len(sorted))

RECURSIVE SortCategories(_)
SortCategories(s) ==
  IF Len(s) = 0 THEN s
  ELSE LET sorted == SortCategories(SubSeq(s, 1, Len(s) - 1))
           x == s[Len(s)]
           before == {i \in 1..Len(sorted) : CategoryCompare(sorted[i], x) <= 0}
           n == IF before = {} THEN 0 ELSE CHOOSE i \in before : \A j \in before : j <= i
       IN  SubSeq(sorted, 1, n) \o <<x>> \o SubSeq(sorted, n + 1, Len(sorted))

(***************************************************************************)
(* Requests.                                                               *)
(***************************************************************************)
RequiredItem(name, cat) ==
  [nome_sorvete |-> Str(name), descricao |-> Str("Sorvete artesanal"), categoria_id |-> Num(cat),
   imagem_url |-> Str(UrlA), metadata |-> Obj([ingrediente_principal |-> Str("leite")])]

OptionalItem(destaque) ==
  [disponibilidade_status |-> Str("limitado"), disponibilidade_observacao |-> Str("so no verao"),
   destaque |-> Bool(destaque), preco_por_peso |-> Num(59),
   preco_por_tamanho |-> Obj([pequeno |-> Num(8), grande |-> Num(15)]),
   preco_por_unidade |-> Null, exibir_precos |-> Bool(FALSE),
   formato_preco_principal |-> Str("unidade"),
   nivel_detalhamento_nutricional |-> Str("completo"),
   informacoes_nutricionais_basicas |-> Null,
   informacoes_nutricionais_completas |->
     Obj([calorias |-> Num(200), gorduras |-> Num(10), carboidratos |-> Num(25),
          proteinas |-> Num(4), sodio |-> Num(0)])]

FullItem(name, cat, destaque) == Obj(Spread(RequiredItem(name, cat), OptionalItem(destaque)))

Without(o, k) == Obj([j \in (DOMAIN o.v) \ {k} |-> o.v[j]])

With(o, k, x) == Obj(Spread(o.v, [j \in {k} |-> x]))

ValidCreateBodies ==
  { Obj(RequiredItem(NameZabaione, 1)),
    FullItem(NameOleoAcute, 6, TRUE) }

InvalidCreateBodies ==
  { Obj(RequiredItem(<<>>, 9)),
    Obj(RequiredItem(NameTooLong, 1)),
    Obj(RequiredItem(NameZabaione, 0)),
    With(FullItem(NameZabaione, 1, FALSE), "preco_por_peso", Num(0)),
    Undefined }

CreateBodies == ValidCreateBodies \cup InvalidCreateBodies

\* The body carries keys that are not in the update schema.
ValidUpdateBodies ==
  { With(With(FullItem(NameOleo, 1, FALSE), "produto_id", Str(UuidOf(1001))),
         "dateCreated", Str(<<57, 57, 57>>)) }

InvalidUpdateBodies ==
  { Without(FullItem(NameOleo, 1, TRUE), "destaque"),
    With(FullItem(NameOleo, 9, TRUE), "descricao", Str(LongDescription)) }

UpdateBodies == ValidUpdateBodies \cup InvalidUpdateBodies

\* The identifiers of the first two products created in a behaviour, the
\* identifier of a product a specification may start with, and a malformed one.
ProductParams ==
  { Obj([produto_id |-> Str(UuidOf(1))]), Obj([produto_id |-> Str(UuidOf(2))]),
    Obj([produto_id |-> Str(UuidOf(1001))]), Obj([produto_id |-> Str(NotAUuid)]) }

(***************************************************************************)
(* The outcome of a service call.                                          *)
(***************************************************************************)
Return(op, params, body, data) ==
  [op |-> op, params |-> params, body |-> body, outcome |-> "return",
   code |-> "", message |-> "", statusCode |-> Undefined, data |-> data]

\* throw new ServiceError(code, message, statusCode, details).
Throw(op, params, body, code, message, statusCode) ==
  [op |-> op, params |-> params, body |-> body, outcome |-> "throw",
   code |-> code, message |-> message, statusCode |-> Num(statusCode), data |-> Undefined]

\* throw new Error(message): an error that has no code and no statusCode;
\* code holds the name of its class.
ThrowError(op, params, body, message) ==
  [op |-> op, params |-> params, body |-> body, outcome |-> "throw",
   code |-> "Error", message |-> message, statusCode |-> Undefined, data |-> Undefined]

(***************************************************************************)
(* Service operations on products                                          *)
(* (services/iceCreamCatalog/iceCreamService.ts).                          *)
(***************************************************************************)
\* Variant: the guard compares with > instead of >=.
addProductRejectsAbove(size) == size > MAX_PRODUCTS

\* The guard of IceCreamStore.addProduct.
addProductRejects(size) == size >= MAX_PRODUCTS

\* Variant: the default of destaque is taken from DISPLAY_PRICES.
newProductOfFeaturedByDefault(params, produto_id, now) ==
  Obj([produto_id |-> Str(produto_id),
       nome_sorvete |-> Prop(params, "nome_sorvete"),
       descricao |-> Prop(params, "descricao"),
       categoria_id |-> Prop(params, "categoria_id"),
       imagem_url |-> Prop(params, "imagem_url"),
       disponibilidade_status |->
         Coalesce(Prop(params, "disponibilidade_status"), ICE_CREAM_DEFAULTS.AVAILABILITY_STATUS),
       disponibilidade_observacao |-> Coalesce(Prop(params, "disponibilidade_observacao"), Null),
       destaque |-> Coalesce(Prop(params, "destaque"), ICE_CREAM_DEFAULTS.DISPLAY_PRICES),
       preco_por_peso |-> Coalesce(Prop(params, "preco_por_peso"), Null),
       preco_por_tamanho |-> Coalesce(Prop(params, "preco_por_tamanho"), Null),
       preco_por_unidade |-> Coalesce(Prop(params, "preco_por_unidade"), Null),
       exibir_precos |-> Coalesce(Prop(params, "exibir_precos"), ICE_CREAM_DEFAULTS.DISPLAY_PRICES),
       formato_preco_principal |-> Coalesce(Prop(params, "formato_preco_principal"), Null),
       metadata |-> Prop(params, "metadata"),
       nivel_detalhamento_nutricional |->
         Coalesce(Prop(params, "nivel_detalhamento_nutricional"), ICE_CREAM_DEFAULTS.NUTRITIONAL_LEVEL),
       informacoes_nutricionais_basicas |-> Coalesce(Prop(params, "informacoes_nutricionais_basicas"), Null),
       informacoes_nutricionais_completas |-> Coalesce(Prop(params, "informacoes_nutricionais_completas"), Null),
       dateCreated |-> now,
       dateModified |-> now])

newProductOf(params, produto_id, now) ==
  Obj([produto_id |-> Str(produto_id),
       nome_sorvete |-> Prop(params, "nome_sorvete"),
       descricao |-> Prop(params, "descricao"),
       categoria_id |-> Prop(params, "categoria_id"),
       imagem_url |-> Prop(params, "imagem_url"),
       disponibilidade_status |->
         Coalesce(Prop(params, "disponibilidade_status"), ICE_CREAM_DEFAULTS.AVAILABILITY_STATUS),
       disponibilidade_observacao |-> Coalesce(Prop(params, "disponibilidade_observacao"), Null),
       destaque |-> Coalesce(Prop(params, "destaque"), ICE_CREAM_DEFAULTS.FEATURED),
       preco_por_peso |-> Coalesce(Prop(params, "preco_por_peso"), Null),
       preco_por_tamanho |-> Coalesce(Prop(params, "preco_por_tamanho"), Null),
       preco_por_unidade |-> Coalesce(Prop(params, "preco_por_unidade"), Null),
       exibir_precos |-> Coalesce(Prop(params, "exibir_precos"), ICE_CREAM_DEFAULTS.DISPLAY_PRICES),
       formato_preco_principal |-> Coalesce(Prop(params, "formato_preco_principal"), Null),
       metadata |-> Prop(params, "metadata"),
       nivel_detalhamento_nutricional |->
         Coalesce(Prop(params, "nivel_detalhamento_nutricional"), ICE_CREAM_DEFAULTS.NUTRITIONAL_LEVEL),
       informacoes_nutricionais_basicas |-> Coalesce(Prop(params, "informacoes_nutricionais_basicas"), Null),
       informacoes_nutricionais_completas |-> Coalesce(Prop(params, "informacoes_nutricionais_completas"), Null),
       dateCreated |-> now,
       dateModified |-> now])

\* Variant: addProduct inserts the product before it checks the capacity.
iceCreamCreateInsertFirst(body) ==
  IF ~iceCreamCreateSchemaValid(body)
  THEN /\ last' = Throw("iceCreamCreate", Undefined, body, "VALIDATION_ERROR", "Validation failed", 400)
       /\ UNCHANGED <<products, categories, currentCategoryId, clock, uuidsIssued, handedOut, epochStart, calls, running>>
  ELSE LET params == iceCreamCreateSchemaData(body) IN
       IF ~categoryExists(Prop(params, "categoria_id").v)
       THEN /\ last' = Throw("iceCreamCreate", Undefined, body, "NOT_FOUND", "Category not found", 404)
            /\ UNCHANGED <<products, categories, currentCategoryId, clock, uuidsIssued, handedOut, epochStart, calls, running>>
       ELSE LET produto_id == getNextProductId
                newProduct == newProductOf(params, produto_id, ToISOString(clock))
            IN
              /\ uuidsIssued < MaxUuids
              /\ uuidsIssued' = uuidsIssued + 1
              /\ products' = MapSet(products, produto_id, newProduct)
              /\ IF addProductRejects(Len(products))
                 THEN last' = ThrowError("iceCreamCreate", Undefined, body, "Maximum products limit reached")
                 ELSE last' = Return("iceCreamCreate", Undefined, body, newProduct)
              /\ UNCHANGED <<categories, currentCategoryId, clock, handedOut, epochStart, calls, running>>

iceCreamCreate(body) ==
  IF ~iceCreamCreateSchemaValid(body)
  THEN /\ last' = Throw("iceCreamCreate", Undefined, body, "VALIDATION_ERROR", "Validation failed", 400)
       /\ UNCHANGED <<products, categories, currentCategoryId, clock, uuidsIssued, handedOut, epochStart, calls, running>>
  ELSE LET params == iceCreamCreateSchemaData(body) IN
       IF ~categoryExists(Prop(params, "categoria_id").v)
       THEN /\ last' = Throw("iceCreamCreate", Undefined, body, "NOT_FOUND", "Category not found", 404)
            /\ UNCHANGED <<products, categories, currentCategoryId, clock, uuidsIssued, handedOut, epochStart, calls, running>>
       ELSE LET produto_id == getNextProductId
                newProduct == newProductOf(params, produto_id, ToISOString(clock))
            IN
              /\ uuidsIssued < MaxUuids
              /\ uuidsIssued' = uuidsIssued + 1
              /\ IF addProductRejects(Len(products))
                 THEN /\ last' = ThrowError("iceCreamCreate", Undefined, body, "Maximum products limit reached")
                      /\ UNCHANGED products
                 ELSE /\ products' = MapSet(products, produto_id, newProduct)
                      /\ last' = Return("iceCreamCreate", Undefined, body, newProduct)
              /\ UNCHANGED <<categories, currentCategoryId, clock, handedOut, epochStart, calls, running>>

iceCreamGet(params) ==
  /\ IF ~productParamsSchemaValid(params)
     THEN last' = Throw("iceCreamGet", params, Undefined, "VALIDATION_ERROR", "Invalid product ID", 400)
     ELSE LET produto_id == Prop(productParamsSchemaData(params), "produto_id").v
              product == getProductById(produto_id)
          IN  IF product = Undefined
              THEN last' = Throw("iceCreamGet", params, Undefined, "NOT_FOUND", "Product not found", 404)
              ELSE last' = Return("iceCreamGet", params, Undefined, product)
  /\ UNCHANGED <<products, categories, currentCategoryId, clock, uuidsIssued, handedOut, epochStart, calls, running>>

\* Variant: the category is looked up before the product.
iceCreamUpdateCategoryFirst(params, body) ==
  /\ IF ~productParamsSchemaValid(params)
     THEN /\ last' = Throw("iceCreamUpdate", params, body, "VALIDATION_ERROR", "Invalid product ID", 400)
          /\ UNCHANGED products
     ELSE IF ~iceCreamUpdateSchemaValid(body)
     THEN /\ last' = Throw("iceCreamUpdate", params, body, "VALIDATION_ERROR", "Validation failed", 400)
          /\ UNCHANGED products
     ELSE LET produto_id == Prop(productParamsSchemaData(params), "produto_id").v
              existing == getProductById(produto_id)
              updateData == iceCreamUpdateSchemaData(body)
          IN  IF ~categoryExists(Prop(updateData, "categoria_id").v)
              THEN /\ last' = Throw("iceCreamUpdate", params, body, "NOT_FOUND", "Category not found", 404)
                   /\ UNCHANGED products
              ELSE IF existing = Undefined
              THEN /\ last' = Throw("iceCreamUpdate", params, body, "NOT_FOUND", "Product not found", 404)
                   /\ UNCHANGED products
              ELSE /\ products' = updateProduct(produto_id,
                                    Spread(updateData.v, [dateModified |-> ToISOString(clock)]))
                   /\ last' = Return("iceCreamUpdate", params, body, MapGet(products', produto_id))
  /\ UNCHANGED <<categories, currentCategoryId, clock, uuidsIssued, handedOut, epochStart, calls, running>>

iceCreamUpdate(params, body) ==
  /\ IF ~productParamsSchemaValid(params)
     THEN /\ last' = Throw("iceCreamUpdate", params, body, "VALIDATION_ERROR", "Invalid product ID", 400)
          /\ UNCHANGED products
     ELSE IF ~iceCreamUpdateSchemaValid(body)
     THEN /\ last' = Throw("iceCreamUpdate", params, body, "VALIDATION_ERROR", "Validation failed", 400)
          /\ UNCHANGED products
     ELSE LET produto_id == Prop(productParamsSchemaData(params), "produto_id").v
              existing == getProductById(produto_id)
              updateData == iceCreamUpdateSchemaData(body)
          IN  IF existing = Undefined
              THEN /\ last' = Throw("iceCreamUpdate", params, body, "NOT_FOUND", "Product not found", 404)
                   /\ UNCHANGED products
              ELSE IF ~categoryExists(Prop(updateData, "categoria_id").v)
              THEN /\ last' = Throw("iceCreamUpdate", params, body, "NOT_FOUND", "Category not found", 404)
                   /\ UNCHANGED products
              ELSE /\ products' = updateProduct(produto_id,
                                    Spread(updateData.v, [dateModified |-> ToISOString(clock)]))
                   /\ last' = Return("iceCreamUpdate", params, body, MapGet(products', produto_id))
  /\ UNCHANGED <<categories, currentCategoryId, clock, uuidsIssued, handedOut, epochStart, calls, running>>

iceCreamDelete(params) ==
  /\ IF ~productParamsSchemaValid(params)
     THEN /\ last' = Throw("iceCreamDelete", params, Undefined, "VALIDATION_ERROR", "Invalid product ID", 400)
          /\ UNCHANGED products
     ELSE LET produto_id == Prop(productParamsSchemaData(params), "produto_id").v IN
          IF ~productExists(produto_id)
          THEN /\ last' = Throw("iceCreamDelete", params, Undefined, "NOT_FOUND", "Product not found", 404)
               /\ UNCHANGED products
          ELSE /\ products' = deleteProduct(produto_id)
               /\ last' = Return("iceCreamDelete", params, Undefined,
                                 Obj([message |-> Str("Product deleted successfully")]))
  /\ UNCHANGED <<categories, currentCategoryId, clock, uuidsIssued, handedOut, epochStart, calls, running>>

ListQueries ==
  { Obj(EmptyObject), Obj([categoria_id |-> Str(<<49>>)]), Obj([categoria_id |-> Str(<<54>>)]),
    Obj([categoria_id |-> Str(<<97, 98, 99>>)]) }

IceCreamListKeys ==
  {"produto_id", "nome_sorvete", "descricao", "categoria_id", "imagem_url", "disponibilidade_status",
   "disponibilidade_observacao", "destaque", "preco_por_peso", "preco_por_tamanho",
   "preco_por_unidade", "exibir_precos", "formato_preco_principal"}

\* Variant: getAllProducts hands out the store's own array, which the sort of
\* iceCreamList then reorders.
iceCreamListSortingStore(query) ==
  /\ IF ~categoryFilterSchemaValid(query)
     THEN /\ last' = Throw("iceCreamList", query, Undefined, "VALIDATION_ERROR", "Invalid query parameters", 400)
          /\ UNCHANGED products
     ELSE LET categoria_id == Prop(categoryFilterSchemaData(query), "categoria_id")
              found == IF categoria_id # Undefined /\ categoria_id.v # 0
                       THEN getProductsByCategory(categoria_id)
                       ELSE getAllProducts
              sortedProducts == SortProducts(found)
          IN  /\ last' = Return("iceCreamList", query, Undefined,
                                Arr([i \in 1..Len(sortedProducts) |-> Strip(sortedProducts[i], IceCreamListKeys)]))
              /\ products' = IF categoria_id # Undefined /\ categoria_id.v # 0
                             THEN products
                             ELSE [i \in 1..Len(sortedProducts) |->
                                     [key |-> Prop(sortedProducts[i], "produto_id").v, value |-> sortedProducts[i]]]
  /\ UNCHANGED <<categories, currentCategoryId, clock, uuidsIssued, handedOut, epochStart, calls, running>>

iceCreamList(query) ==
  /\ IF ~categoryFilterSchemaValid(query)
     THEN last' = Throw("iceCreamList", query, Undefined, "VALIDATION_ERROR", "Invalid query parameters", 400)
     ELSE LET categoria_id == Prop(categoryFilterSchemaData(query), "categoria_id")
              found == IF categoria_id # Undefined /\ categoria_id.v # 0
                       THEN getProductsByCategory(categoria_id)
                       ELSE getAllProducts
              sortedProducts == SortProducts(found)
          IN  last' = Return("iceCreamList", query, Undefined,
                             Arr([i \in 1..Len(sortedProducts) |-> Strip(sortedProducts[i], IceCreamListKeys)]))
  /\ UNCHANGED <<products, categories, currentCategoryId, clock, uuidsIssued, handedOut, epochStart, calls, running>>

(***************************************************************************)
(* Service operations on categories.                                       *)
(***************************************************************************)
ValidCategoryCreateBodies ==
  { Obj([nome_categoria |-> Str(CatNameTest), ordem_exibicao |-> Num(3)]) }

InvalidCategoryCreateBodies ==
  { Obj([nome_categoria |-> Str(CatNameTooLong), ordem_exibicao |-> Num(2)]),
    Obj([nome_categoria |-> Str(CatNameTest), ordem_exibicao |-> Num(0)]),
    Undefined }

CategoryCreateBodies == ValidCategoryCreateBodies \cup InvalidCategoryCreateBodies

\* The body carries keys that are not in the update schema.
ValidCategoryUpdateBodies ==
  { Obj([nome_categoria |-> Str(CatNameSazonais), descricao_categoria |-> Null,
         ordem_exibicao |-> Num(7), ativa |-> Bool(FALSE),
         categoria_id |-> Num(99), dateCreated |-> Str(<<57, 57, 57>>)]) }

InvalidCategoryUpdateBodies ==
  { Obj([nome_categoria |-> Str(CatNameTest), descricao_categoria |-> Str(LongNote), ativa |-> Bool(TRUE)]) }

CategoryUpdateBodies == ValidCategoryUpdateBodies \cup InvalidCategoryUpdateBodies

\* Path parameters '1', '6', '0' and 'abc'.
CategoryParams ==
  { Obj([categoria_id |-> Str(<<49>>)]), Obj([categoria_id |-> Str(<<54>>)]),
    Obj([categoria_id |-> Str(<<48>>)]), Obj([categoria_id |-> Str(<<97, 98, 99>>)]) }

CategoryListKeys == {"categoria_id", "nome_categoria", "descricao_categoria", "ordem_exibicao", "ativa"}

categoryList ==
  /\ LET sortedCategories == SortCategories(getActiveCategories)
     IN  last' = Return("categoryList", Undefined, Undefined,
                        Arr([i \in 1..Len(sortedCategories) |-> Strip(sortedCategories[i], CategoryListKeys)]))
  /\ UNCHANGED <<products, categories, currentCategoryId, clock, uuidsIssued, handedOut, epochStart, calls, running>>

\* Variant: the default display order is the new id.
newCategoryOfOrderFromId(params, categoria_id, now) ==
  Obj([categoria_id |-> Num(categoria_id),
       nome_categoria |-> Prop(params, "nome_categoria"),
       descricao_categoria |-> Coalesce(Prop(params, "descricao_categoria"), Null),
       ordem_exibicao |-> Coalesce(Prop(params, "ordem_exibicao"), Num(categoria_id)),
       ativa |-> Coalesce(Prop(params, "ativa"), Bool(TRUE)),
       dateCreated |-> now,
       dateModified |-> now])

newCategoryOf(params, categoria_id, now) ==
  Obj([categoria_id |-> Num(categoria_id),
       nome_categoria |-> Prop(params, "nome_categoria"),
       descricao_categoria |-> Coalesce(Prop(params, "descricao_categoria"), Null),
       ordem_exibicao |-> Coalesce(Prop(params, "ordem_exibicao"), Num(1)),
       ativa |-> Coalesce(Prop(params, "ativa"), Bool(TRUE)),
       dateCreated |-> now,
       dateModified |-> now])

\* Variant: the identifier is taken before the body is validated.
categoryCreateEager(body) ==
  LET categoria_id == getNextCategoryId(currentCategoryId) IN
  /\ Len(handedOut) < MaxHandedOut
  /\ currentCategoryId' = categoria_id
  /\ handedOut' = Append(handedOut, categoria_id)
  /\ IF ~categoryCreateSchemaValid(body)
     THEN /\ last' = Throw("categoryCreate", Undefined, body, "VALIDATION_ERROR", "Validation failed", 400)
          /\ UNCHANGED categories
     ELSE LET newCategory == newCategoryOf(categoryCreateSchemaData(body), categoria_id, ToISOString(clock))
          IN  /\ categories' = MapSet(categories, categoria_id, newCategory)
              /\ last' = Return("categoryCreate", Undefined, body, newCategory)
  /\ UNCHANGED <<products, clock, uuidsIssued, epochStart, calls, running>>

\* Variant: the identifier is derived from the number of stored categories.
categoryCreateFromSize(body) ==
  IF ~categoryCreateSchemaValid(body)
  THEN /\ last' = Throw("categoryCreate", Undefined, body, "VALIDATION_ERROR", "Validation failed", 400)
       /\ UNCHANGED <<products, categories, currentCategoryId, clock, uuidsIssued, handedOut, epochStart, calls, running>>
  ELSE LET categoria_id == Len(categories) + 1
           newCategory == newCategoryOf(categoryCreateSchemaData(body), categoria_id, ToISOString(clock))
       IN  /\ Len(handedOut) < MaxHandedOut
           /\ currentCategoryId' = categoria_id
           /\ handedOut' = Append(handedOut, categoria_id)
           /\ categories' = MapSet(categories, categoria_id, newCategory)
           /\ last' = Return("categoryCreate", Undefined, body, newCategory)
           /\ UNCHANGED <<products, clock, uuidsIssued, epochStart, calls, running>>

categoryCreate(body) ==
  IF ~categoryCreateSchemaValid(body)
  THEN /\ last' = Throw("categoryCreate", Undefined, body, "VALIDATION_ERROR", "Validation failed", 400)
       /\ UNCHANGED <<products, categories, currentCategoryId, clock, uuidsIssued, handedOut, epochStart, calls, running>>
  ELSE LET params == categoryCreateSchemaData(body)
           categoria_id == getNextCategoryId(currentCategoryId)
           newCategory == newCategoryOf(params, categoria_id, ToISOString(clock))
       IN  /\ Len(handedOut) < MaxHandedOut
           /\ currentCategoryId' = categoria_id
           /\ handedOut' = Append(handedOut, categoria_id)
           /\ categories' = MapSet(categories, Prop(newCategory, "categoria_id").v, newCategory)
           /\ last' = Return("categoryCreate", Undefined, body, newCategory)
           /\ UNCHANGED <<products, clock, uuidsIssued, epochStart, calls, running>>

categoryGet(params) ==
  /\ IF ~categoryParamsSchemaValid(params)
     THEN last' = Throw("categoryGet", params, Undefined, "VALIDATION_ERROR", "Invalid category ID", 400)
     ELSE LET categoria_id == Prop(categoryParamsSchemaData(params), "categoria_id").v
              category == getCategoryById(categoria_id)
          IN  IF category = Undefined
              THEN last' = Throw("categoryGet", params, Undefined, "NOT_FOUND", "Category not found", 404)
              ELSE last' = Return("categoryGet", params, Undefined, category)
  /\ UNCHANGED <<products, categories, currentCategoryId, clock, uuidsIssued, handedOut, epochStart, calls, running>>

categoryUpdate(params, body) ==
  /\ IF ~categoryParamsSchemaValid(params)
     THEN /\ last' = Throw("categoryUpdate", params, body, "VALIDATION_ERROR", "Invalid category ID", 400)
          /\ UNCHANGED categories
     ELSE IF ~categoryUpdateSchemaValid(body)
     THEN /\ last' = Throw("categoryUpdate", params, body, "VALIDATION_ERROR", "Validation failed", 400)
          /\ UNCHANGED categories
     ELSE LET categoria_id == Prop(categoryParamsSchemaData(params), "categoria_id").v
              existing == getCategoryById(categoria_id)
              updateData == categoryUpdateSchemaData(body)
          IN  IF existing = Undefined
              THEN /\ last' = Throw("categoryUpdate", params, body, "NOT_FOUND", "Category not found", 404)
                   /\ UNCHANGED categories
              ELSE /\ categories' = updateCategory(categoria_id,
                                      Spread(updateData.v, [dateModified |-> ToISOString(clock)]))
                   /\ last' = Return("categoryUpdate", params, body, MapGet(categories', categoria_id))
  /\ UNCHANGED <<products, currentCategoryId, clock, uuidsIssued, handedOut, epochStart, calls, running>>

\* Variant: a category that a product references is not deleted.
categoryDeleteBlocked(params) ==
  /\ IF ~categoryParamsSchemaValid(params)
     THEN /\ last' = Throw("categoryDelete", params, Undefined, "VALIDATION_ERROR", "Invalid category ID", 400)
          /\ UNCHANGED categories
     ELSE LET categoria_id == Prop(categoryParamsSchemaData(params), "categoria_id").v IN
          IF ~categoryExists(categoria_id)
          THEN /\ last' = Throw("categoryDelete", params, Undefined, "NOT_FOUND", "Category not found", 404)
               /\ UNCHANGED categories
          ELSE IF Len(getProductsByCategory(Num(categoria_id))) > 0
          THEN /\ last' = Throw("categoryDelete", params, Undefined, "CONFLICT", "Category in use", 409)
               /\ UNCHANGED categories
          ELSE /\ categories' = deleteCategory(categoria_id)
               /\ last' = Return("categoryDelete", params, Undefined,
                                 Obj([message |-> Str("Category deleted successfully")]))
  /\ UNCHANGED <<products, currentCategoryId, clock, uuidsIssued, handedOut, epochStart, calls, running>>

\* Variant: deleting a category also removes the products that reference it.
categoryDeleteCascade(params) ==
  /\ IF ~categoryParamsSchemaValid(params)
     THEN /\ last' = Throw("categoryDelete", params, Undefined, "VALIDATION_ERROR", "Invalid category ID", 400)
          /\ UNCHANGED <<products, categories>>
     ELSE LET categoria_id == Prop(categoryParamsSchemaData(params), "categoria_id").v IN
          IF ~categoryExists(categoria_id)
          THEN /\ last' = Throw("categoryDelete", params, Undefined, "NOT_FOUND", "Category not found", 404)
               /\ UNCHANGED <<products, categories>>
          ELSE /\ categories' = deleteCategory(categoria_id)
               /\ products' = SelectSeq(products, LAMBDA e : Prop(e.value, "categoria_id") # Num(categoria_id))
               /\ last' = Return("categoryDelete", params, Undefined,
                                 Obj([message |-> Str("Category deleted successfully")]))
  /\ UNCHANGED <<currentCategoryId, clock, uuidsIssued, handedOut, epochStart, calls, running>>

categoryDelete(params) ==
  /\ IF ~categoryParamsSchemaValid(params)
     THEN /\ last' = Throw("categoryDelete", params, Undefined, "VALIDATION_ERROR", "Invalid category ID", 400)
          /\ UNCHANGED categories
     ELSE LET categoria_id == Prop(categoryParamsSchemaData(params), "categoria_id").v IN
          IF ~categoryExists(categoria_id)
          THEN /\ last' = Throw("categoryDelete", params, Undefined, "NOT_FOUND", "Category not found", 404)
               /\ UNCHANGED categories
          ELSE /\ categories' = deleteCategory(categoria_id)
               /\ last' = Return("categoryDelete", params, Undefined,
                                 Obj([message |-> Str("Category deleted successfully")]))
  /\ UNCHANGED <<products, currentCategoryId, clock, uuidsIssued, handedOut, epochStart, calls, running>>

(***************************************************************************)
(* Store operations that no service operation calls.                       *)
(***************************************************************************)
clearProducts ==
  /\ products' = <<>>
  /\ last' = Return("clearProducts", Undefined, Undefined, Undefined)
  /\ UNCHANGED <<categories, currentCategoryId, clock, uuidsIssued, handedOut, epochStart, calls, running>>

\* Variant: clearCategories resets the counter and keeps the categories.
clearCategoriesCounterOnly ==
  /\ currentCategoryId' = 0
  /\ epochStart' = Len(handedOut)
  /\ last' = Return("clearCategories", Undefined, Undefined, Undefined)
  /\ UNCHANGED <<products, categories, clock, uuidsIssued, handedOut, calls, running>>

clearCategories ==
  /\ categories' = <<>>
  /\ currentCategoryId' = 0
  /\ epochStart' = Len(handedOut)
  /\ last' = Return("clearCategories", Undefined, Undefined, Undefined)
  /\ UNCHANGED <<products, clock, uuidsIssued, handedOut, calls, running>>

(***************************************************************************)
(* Controllers (api/internal/category/controller.ts and                    *)
(* api/internal/ice-cream/controller.ts).  A handler awaits the service    *)
(* call and answers from its result; the response is the status, the JSON  *)
(* body and whether the error was passed to next().                        *)
(***************************************************************************)
\* { success: true, data }.
successResponse(data) == Obj([success |-> Bool(TRUE), data |-> data])

\* { success: false, error: { code, message } }; the details are left out.
errorResponse(message, code) ==
  Obj([success |-> Bool(FALSE), error |-> Obj([code |-> Str(code), message |-> Str(message)])])

\* The error is an instance of ServiceError.
isServiceError(error) == error.code # "Error"

\* The generic handler behind next(error): an unstructured 500.
errorMiddleware(error) == [status |-> 500, json |-> Undefined, next |-> TRUE]

\* The catch block of every handler.
catchBlock(error) ==
  IF isServiceError(error)
  THEN [status |-> error.statusCode.v, json |-> errorResponse(error.message, error.code), next |-> FALSE]
  ELSE errorMiddleware(error)

\* Variant: every error is answered with a structured response.
createHandlerCatchAll(result) ==
  IF result.outcome = "return"
  THEN [status |-> 201, json |-> successResponse(result.data), next |-> FALSE]
  ELSE [status |-> Coalesce(result.statusCode, Num(500)).v,
        json |-> errorResponse(result.message, result.code), next |-> FALSE]

\* res.status(201).json(successResponse(data)).
createHandler(result) ==
  IF result.outcome = "return"
  THEN [status |-> 201, json |-> successResponse(result.data), next |-> FALSE]
  ELSE catchBlock(result)

\* res.json(successResponse(data)): the status of a response is 200 unless set.
listHandler(result) ==
  IF result.outcome = "return"
  THEN [status |-> 200, json |-> successResponse(result.data), next |-> FALSE]
  ELSE catchBlock(result)

getHandler(result) ==
  IF result.outcome = "return"
  THEN [status |-> 200, json |-> successResponse(result.data), next |-> FALSE]
  ELSE catchBlock(result)

updateHandler(result) ==
  IF result.outcome = "return"
  THEN [status |-> 200, json |-> successResponse(result.data), next |-> FALSE]
  ELSE catchBlock(result)

deleteHandler(result) ==
  IF result.outcome = "return"
  THEN [status |-> 200, json |-> successResponse(result.data), next |-> FALSE]
  ELSE catchBlock(result)

\* The response of the handler that made the service call.
Response(result) ==
  CASE result.op \in {"iceCreamList", "categoryList"} -> listHandler(result)
    [] result.op \in {"iceCreamCreate", "categoryCreate"} -> createHandler(result)
    [] result.op \in {"iceCreamGet", "categoryGet"} -> getHandler(result)
    [] result.op \in {"iceCreamUpdate", "categoryUpdate"} -> updateHandler(result)
    [] result.op \in {"iceCreamDelete", "categoryDelete"} -> deleteHandler(result)

(***************************************************************************)
(* Concurrent callers.  Every service function is declared async, and a    *)
(* controller awaits it: the call runs on the single JavaScript thread     *)
(* from its first statement to its return or throw, unless the function    *)
(* reaches an await, where the thread is handed to another caller.  calls  *)
(* holds each caller's request and position ("idle", "pending": received   *)
(* and not started, "checked": the reads before the first write are done), *)
(* running the caller that holds the thread (0: none).                     *)
(***************************************************************************)
Callers == 1..MaxCallers

NoCalls == [c \in Callers |-> [pc |-> "idle"]]

ConcurrentRequests ==
  { [op |-> "iceCreamCreate", params |-> Undefined, body |-> Obj(RequiredItem(NameZabaione, 1))],
    [op |-> "iceCreamUpdate", params |-> Obj([produto_id |-> Str(UuidOf(1))]),
     body |-> FullItem(NameOleo, 1, FALSE)],
    [op |-> "iceCreamDelete", params |-> Obj([produto_id |-> Str(UuidOf(1))]), body |-> Undefined],
    [op |-> "categoryCreate", params |-> Undefined,
     body |-> Obj([nome_categoria |-> Str(CatNameTest), ordem_exibicao |-> Num(3)])],
    [op |-> "categoryUpdate", params |-> Obj([categoria_id |-> Str(<<49>>)]),
     body |-> Obj([nome_categoria |-> Str(CatNameSazonais), ativa |-> Bool(FALSE)])],
    [op |-> "categoryDelete", params |-> Obj([categoria_id |-> Str(<<49>>)]), body |-> Undefined],
    [op |-> "iceCreamGet", params |-> Obj([produto_id |-> Str(UuidOf(1))]), body |-> Undefined],
    [op |-> "categoryGet", params |-> Obj([categoria_id |-> Str(<<49>>)]), body |-> Undefined] }

\* Variant: every service function awaits between its reads and its writes.
awaitsAfterReads(op, position) == position = "checked"

\* Variant: iceCreamCreate awaits between the category check and addProduct.
awaitsAfterCategoryCheck(op, position) == op = "iceCreamCreate" /\ position = "checked"

\* Whether the body of service function op holds an await at the position:
\* no service function holds one.
awaitsAfter(op, position) == FALSE

\* The validations and store reads a service function makes before its first
\* store write: the error it throws on them or, with no write to make, the
\* value it returns; Undefined when it goes on to its writes.
serviceCheck(r) ==
  CASE r.op = "iceCreamCreate" ->
         IF ~iceCreamCreateSchemaValid(r.body)
         THEN Throw(r.op, r.params, r.body, "VALIDATION_ERROR", "Validation failed", 400)
         ELSE IF ~categoryExists(Prop(iceCreamCreateSchemaData(r.body), "categoria_id").v)
         THEN Throw(r.op, r.params, r.body, "NOT_FOUND", "Category not found", 404)
         ELSE Undefined
    [] r.op = "iceCreamUpdate" ->
         IF ~productParamsSchemaValid(r.params)
         THEN Throw(r.op, r.params, r.body, "VALIDATION_ERROR", "Invalid product ID", 400)
         ELSE IF ~iceCreamUpdateSchemaValid(r.body)
         THEN Throw(r.op, r.params, r.body, "VALIDATION_ERROR", "Validation failed", 400)
         ELSE IF getProductById(Prop(productParamsSchemaData(r.params), "produto_id").v) = Undefined
         THEN Throw(r.op, r.params, r.body, "NOT_FOUND", "Product not found", 404)
         ELSE IF ~categoryExists(Prop(iceCreamUpdateSchemaData(r.body), "categoria_id").v)
         THEN Throw(r.op, r.params, r.body, "NOT_FOUND", "Category not found", 404)
         ELSE Undefined
    [] r.op = "iceCreamDelete" ->
         IF ~productParamsSchemaValid(r.params)
         THEN Throw(r.op, r.params, r.body, "VALIDATION_ERROR", "Invalid product ID", 400)
         ELSE IF ~productExists(Prop(productParamsSchemaData(r.params), "produto_id").v)
         THEN Throw(r.op, r.params, r.body, "NOT_FOUND", "Product not found", 404)
         ELSE Undefined
    [] r.op = "categoryCreate" ->
         IF ~categoryCreateSchemaValid(r.body)
         THEN Throw(r.op, r.params, r.body, "VALIDATION_ERROR", "Validation failed", 400)
         ELSE Undefined
    [] r.op = "categoryUpdate" ->
         IF ~categoryParamsSchemaValid(r.params)
         THEN Throw(r.op, r.params, r.body, "VALIDATION_ERROR", "Invalid category ID", 400)
         ELSE IF ~categoryUpdateSchemaValid(r.body)
         THEN Throw(r.op, r.params, r.body, "VALIDATION_ERROR", "Validation failed", 400)
         ELSE IF getCategoryById(Prop(categoryParamsSchemaData(r.params), "categoria_id").v) = Undefined
         THEN Throw(r.op, r.params, r.body, "NOT_FOUND", "Category not found", 404)
         ELSE Undefined
    [] r.op = "categoryDelete" ->
         IF ~categoryParamsSchemaValid(r.params)
         THEN Throw(r.op, r.params, r.body, "VALIDATION_ERROR", "Invalid category ID", 400)
         ELSE IF ~categoryExists(Prop(categoryParamsSchemaData(r.params), "categoria_id").v)
         THEN Throw(r.op, r.params, r.body, "NOT_FOUND", "Category not found", 404)
         ELSE Undefined
    [] r.op = "iceCreamGet" ->
         IF ~productParamsSchemaValid(r.params)
         THEN Throw(r.op, r.params, r.body, "VALIDATION_ERROR", "Invalid product ID", 400)
         ELSE LET product == getProductById(Prop(productParamsSchemaData(r.params), "produto_id").v) IN
              IF product = Undefined
              THEN Throw(r.op, r.params, r.body, "NOT_FOUND", "Product not found", 404)
              ELSE Return(r.op, r.params, r.body, product)
    [] r.op = "categoryGet" ->
         IF ~categoryParamsSchemaValid(r.params)
         THEN Throw(r.op, r.params, r.body, "VALIDATION_ERROR", "Invalid category ID", 400)
         ELSE LET category == getCategoryById(Prop(categoryParamsSchemaData(r.params), "categoria_id").v) IN
              IF category = Undefined
              THEN Throw(r.op, r.params, r.body, "NOT_FOUND", "Category not found", 404)
              ELSE Return(r.op, r.params, r.body, category)

\* The store writes of a service function and the value it returns.
serviceAct(r) ==
  CASE r.op = "iceCreamCreate" ->
         LET produto_id == getNextProductId
             newProduct == newProductOf(iceCreamCreateSchemaData(r.body), produto_id, ToISOString(clock))
         IN  /\ uuidsIssued < MaxUuids
             /\ uuidsIssued' = uuidsIssued + 1
             /\ IF addProductRejects(Len(products))
                THEN /\ last' = ThrowError(r.op, r.params, r.body, "Maximum products limit reached")
                     /\ UNCHANGED products
                ELSE /\ products' = MapSet(products, produto_id, newProduct)
                     /\ last' = Return(r.op, r.params, r.body, newProduct)
             /\ UNCHANGED <<categories, currentCategoryId, handedOut>>
    [] r.op = "iceCreamUpdate" ->
         LET produto_id == Prop(productParamsSchemaData(r.params), "produto_id").v IN
         /\ products' = IF productExists(produto_id)
                        THEN updateProduct(produto_id,
                               Spread(iceCreamUpdateSchemaData(r.body).v, [dateModified |-> ToISOString(clock)]))
                        ELSE products
         /\ last' = Return(r.op, r.params, r.body, MapGet(products', produto_id))
         /\ UNCHANGED <<categories, currentCategoryId, uuidsIssued, handedOut>>
    [] r.op = "iceCreamDelete" ->
         /\ products' = deleteProduct(Prop(productParamsSchemaData(r.params), "produto_id").v)
         /\ last' = Return(r.op, r.params, r.body, Obj([message |-> Str("Product deleted successfully")]))
         /\ UNCHANGED <<categories, currentCategoryId, uuidsIssued, handedOut>>
    [] r.op = "categoryCreate" ->
         LET categoria_id == getNextCategoryId(currentCategoryId)
             newCategory == newCategoryOf(categoryCreateSchemaData(r.body), categoria_id, ToISOString(clock))
         IN  /\ Len(handedOut) < MaxHandedOut
             /\ currentCategoryId' = categoria_id
             /\ handedOut' = Append(handedOut, categoria_id)
             /\ categories' = MapSet(categories, categoria_id, newCategory)
             /\ last' = Return(r.op, r.params, r.body, newCategory)
             /\ UNCHANGED <<products, uuidsIssued>>
    [] r.op = "categoryUpdate" ->
         LET categoria_id == Prop(categoryParamsSchemaData(r.params), "categoria_id").v IN
         /\ categories' = IF categoryExists(categoria_id)
                          THEN updateCategory(categoria_id,
                                 Spread(categoryUpdateSchemaData(r.body).v, [dateModified |-> ToISOString(clock)]))
                          ELSE categories
         /\ last' = Return(r.op, r.params, r.body, MapGet(categories', categoria_id))
         /\ UNCHANGED <<products, currentCategoryId, uuidsIssued, handedOut>>
    [] r.op = "categoryDelete" ->
         /\ categories' = deleteCategory(Prop(categoryParamsSchemaData(r.params), "categoria_id").v)
         /\ last' = Return(r.op, r.params, r.body, Obj([message |-> Str("Category deleted successfully")]))
         /\ UNCHANGED <<products, currentCategoryId, uuidsIssued, handedOut>>

\* A request reaches the server while any caller, or none, holds the thread.
Arrive(c) ==
  /\ calls[c].pc = "idle"
  /\ \E r \in ConcurrentRequests :
       calls' = [calls EXCEPT ![c] = [pc |-> "pending", op |-> r.op, params |-> r.params, body |-> r.body]]
  /\ UNCHANGED <<products, categories, currentCategoryId, clock, uuidsIssued, handedOut, epochStart, last, running>>

\* The thread runs one caller at a time: a caller steps when it holds the
\* thread or when no caller holds it.
HasTurn(c) == running \in {0, c}

\* The service function starts: it validates and reads the store; it throws
\* or returns, or goes on to its writes, at once unless it awaits.
Check(c) ==
  /\ calls[c].pc = "pending"
  /\ HasTurn(c)
  /\ LET r == calls[c]
         result == serviceCheck(r)
     IN  IF result # Undefined
         THEN /\ last' = result
              /\ calls' = [calls EXCEPT ![c] = [pc |-> "idle"]]
              /\ running' = 0
         ELSE /\ calls' = [calls EXCEPT ![c] = [pc |-> "checked", op |-> r.op, params |-> r.params,
                                                body |-> r.body, seen |-> storeVars]]
              /\ running' = IF awaitsAfter(r.op, "checked") THEN 0 ELSE c
              /\ UNCHANGED last
  /\ UNCHANGED <<products, categories, currentCategoryId, clock, uuidsIssued, handedOut, epochStart>>

\* The service function writes the store and returns.
Act(c) ==
  /\ calls[c].pc = "checked"
  /\ HasTurn(c)
  /\ serviceAct(calls[c])
  /\ calls' = [calls EXCEPT ![c] = [pc |-> "idle"]]
  /\ running' = 0
  /\ UNCHANGED <<clock, epochStart>>

(***************************************************************************)
(* The clock read by new Date().                                           *)
(***************************************************************************)
Tick ==
  /\ clock < MaxClock
  /\ clock' = clock + 1
  /\ UNCHANGED <<products, categories, currentCategoryId, uuidsIssued, handedOut, epochStart, last, calls, running>>

(***************************************************************************)
(* Specifications.                                                         *)
(***************************************************************************)
Constructed ==
  initializeDefaultCategories(1, ToISOString(0), [currentCategoryId |-> 0, handedOut |-> <<>>, categories |-> <<>>])

Init ==
  /\ products = <<>>
  /\ categories = Constructed.categories
  /\ currentCategoryId = Constructed.currentCategoryId
  /\ handedOut = Constructed.handedOut
  /\ clock = 0
  /\ uuidsIssued = 0
  /\ epochStart = 0
  /\ last = Return("constructor", Undefined, Undefined, Undefined)
  /\ calls = NoCalls
  /\ running = 0

IceCreamList == \E query \in ListQueries : iceCreamList(query)

IceCreamCreate == \E body \in CreateBodies : iceCreamCreate(body)

IceCreamGet == \E params \in ProductParams : iceCreamGet(params)

IceCreamUpdate == \E params \in ProductParams, body \in UpdateBodies : iceCreamUpdate(params, body)

IceCreamDelete == \E params \in ProductParams : iceCreamDelete(params)

CategoryList == categoryList

CategoryCreate == \E body \in CategoryCreateBodies : categoryCreate(body)

CategoryGet == \E params \in CategoryParams : categoryGet(params)

CategoryUpdate == \E params \in CategoryParams, body \in CategoryUpdateBodies : categoryUpdate(params, body)

CategoryDelete == \E params \in CategoryParams : categoryDelete(params)

Next ==
  \/ IceCreamList
  \/ IceCreamCreate
  \/ IceCreamGet
  \/ IceCreamUpdate
  \/ IceCreamDelete
  \/ CategoryList
  \/ CategoryCreate
  \/ CategoryGet
  \/ CategoryUpdate
  \/ CategoryDelete

Spec == Init /\ [][Next]_vars

\* The service operations and the store's clear operations.
NextStore ==
  \/ Next
  \/ clearProducts
  \/ clearCategories

SpecStore == Init /\ [][NextStore]_vars

\* A store one product short of MAX_PRODUCTS: the products were created from
\* the same request, their identifiers are UuidOf(1001), UuidOf(1002), ...
InitCap ==
  /\ products = [i \in 1..(MAX_PRODUCTS - 1) |->
                   [key |-> UuidOf(1000 + i),
                    value |-> newProductOf(iceCreamCreateSchemaData(Obj(RequiredItem(NameZabaione, 1))),
                                           UuidOf(1000 + i), ToISOString(0))]]
  /\ categories = Constructed.categories
  /\ currentCategoryId = Constructed.currentCategoryId
  /\ handedOut = Constructed.handedOut
  /\ clock = 0
  /\ uuidsIssued = 0
  /\ epochStart = 0
  /\ last = Return("constructor", Undefined, Undefined, Undefined)
  /\ calls = NoCalls
  /\ running = 0

NextCap ==
  \/ IceCreamCreate
  \/ IceCreamGet
  \/ IceCreamDelete

SpecCap == InitCap /\ [][NextCap]_vars

\* Products that differ in their names only: 'Zabaione' and 'Óleo', neither
\* featured, created in either order, then listed, read and deleted.
SortCreateBodies ==
  { Obj(RequiredItem(NameZabaione, 1)), Obj(RequiredItem(NameOleoAcute, 1)) }

IceCreamCreateNamed == \E body \in SortCreateBodies : iceCreamCreate(body)

NextSort ==
  \/ IceCreamCreateNamed
  \/ IceCreamList
  \/ IceCreamGet
  \/ IceCreamDelete

SpecSort == Init /\ [][NextSort]_vars

\* Categories created from a body with the name only, from a body with
\* every field and from a body whose name is too long, at different times.
NamedCategoryCreateBodies ==
  { Obj([nome_categoria |-> Str(CatNameTest)]),
    Obj([nome_categoria |-> Str(CatNameSazonais), descricao_categoria |-> Str("Sabores da estacao"),
         ordem_exibicao |-> Num(3), ativa |-> Bool(FALSE)]),
    Obj([nome_categoria |-> Str(CatNameTooLong)]) }

CategoryCreateNamed == \E body \in NamedCategoryCreateBodies : categoryCreate(body)

NextCategory ==
  \/ Tick
  \/ CategoryCreateNamed
  \/ CategoryList
  \/ CategoryGet
  \/ CategoryUpdate
  \/ CategoryDelete

SpecCategory == Init /\ [][NextCategory]_vars

\* Requests to each of the ten handlers on a store one product short of
\* MAX_PRODUCTS: for each handler one request that can succeed and one that
\* cannot.  The listing is filtered: it sorts the products of one category.
HttpListQueries == { Obj([categoria_id |-> Str(<<54>>)]), Obj([categoria_id |-> Str(<<97, 98, 99>>)]) }

HttpCreateBodies == { Obj(RequiredItem(NameZabaione, 1)), Obj(RequiredItem(<<>>, 9)) }

HttpProductParams == { Obj([produto_id |-> Str(UuidOf(1001))]), Obj([produto_id |-> Str(NotAUuid)]) }

HttpCategoryCreateBodies == { Obj([nome_categoria |-> Str(CatNameTest)]), Undefined }

HttpCategoryParams == { Obj([categoria_id |-> Str(<<49>>)]), Obj([categoria_id |-> Str(<<97, 98, 99>>)]) }

HttpIceCreamList == \E query \in HttpListQueries : iceCreamList(query)

HttpIceCreamCreate == \E body \in HttpCreateBodies : iceCreamCreate(body)

HttpIceCreamGet == \E params \in HttpProductParams : iceCreamGet(params)

HttpIceCreamUpdate == \E params \in HttpProductParams, body \in ValidUpdateBodies : iceCreamUpdate(params, body)

HttpIceCreamDelete == \E params \in HttpProductParams : iceCreamDelete(params)

HttpCategoryCreate == \E body \in HttpCategoryCreateBodies : categoryCreate(body)

HttpCategoryGet == \E params \in HttpCategoryParams : categoryGet(params)

HttpCategoryUpdate ==
  \E params \in HttpCategoryParams, body \in ValidCategoryUpdateBodies : categoryUpdate(params, body)

HttpCategoryDelete == \E params \in HttpCategoryParams : categoryDelete(params)

NextHttp ==
  \/ HttpIceCreamList
  \/ HttpIceCreamCreate
  \/ HttpIceCreamGet
  \/ HttpIceCreamUpdate
  \/ HttpIceCreamDelete
  \/ CategoryList
  \/ HttpCategoryCreate
  \/ HttpCategoryGet
  \/ HttpCategoryUpdate
  \/ HttpCategoryDelete

SpecHttp == InitCap /\ [][NextHttp]_vars

\* The product operations that write, at different times.
NextClock ==
  \/ Tick
  \/ IceCreamCreate
  \/ IceCreamGet
  \/ IceCreamUpdate
  \/ IceCreamDelete

SpecClock == Init /\ [][NextClock]_vars

\* Callers whose requests arrive at any time and are served on one thread.
NextConcurrent ==
  \/ \E c \in Callers : Arrive(c)
  \/ \E c \in Callers : Check(c)
  \/ \E c \in Callers : Act(c)

SpecConcurrent == Init /\ [][NextConcurrent]_vars

\* Requests whose prices and principal price format are combined freely: any
\* format, or null, with any subset of the three prices populated.
PriceOf(k) == IF k = "preco_por_tamanho" THEN Obj([pequeno |-> Num(8), grande |-> Num(15)]) ELSE Num(59)

PriceFormats == {Null} \cup {Str(f) : f \in ICE_CREAM_PRICE_FORMAT}

PricedBody(formato, populated) ==
  Obj(Spread(FullItem(NameZabaione, 1, FALSE).v,
             [k \in PriceKeys \cup {"formato_preco_principal"} |->
                IF k = "formato_preco_principal" THEN formato
                ELSE IF k \in populated THEN PriceOf(k) ELSE Null]))

\* A create request may leave an unpopulated price out.
PricedCreateBody(formato, populated) ==
  Obj([k \in (DOMAIN PricedBody(formato, populated).v) \ (PriceKeys \ populated) |->
         PricedBody(formato, populated).v[k]])

PricedBodies == { PricedBody(f, p) : f \in PriceFormats, p \in SUBSET PriceKeys }

PricedCreateBodies == { PricedCreateBody(f, p) : f \in PriceFormats, p \in SUBSET PriceKeys }

\* A store whose products were created from one request and that has a
\* single identifier left to issue.
InitPrice ==
  /\ products = [i \in 1..(MaxUuids - 1) |->
                   [key |-> UuidOf(i),
                    value |-> newProductOf(iceCreamCreateSchemaData(Obj(RequiredItem(NameZabaione, 1))),
                                           UuidOf(i), ToISOString(0))]]
  /\ categories = Constructed.categories
  /\ currentCategoryId = Constructed.currentCategoryId
  /\ handedOut = Constructed.handedOut
  /\ clock = 0
  /\ uuidsIssued = MaxUuids - 1
  /\ epochStart = 0
  /\ last = Return("iceCreamCreate", Undefined, Obj(RequiredItem(NameZabaione, 1)),
                   newProductOf(iceCreamCreateSchemaData(Obj(RequiredItem(NameZabaione, 1))),
                                UuidOf(MaxUuids - 1), ToISOString(0)))
  /\ calls = NoCalls
  /\ running = 0

IceCreamCreatePriced == \E body \in PricedBodies \cup PricedCreateBodies : iceCreamCreate(body)

IceCreamUpdatePriced ==
  \E body \in PricedBodies : iceCreamUpdate(Obj([produto_id |-> Str(UuidOf(1))]), body)

NextPrice ==
  \/ IceCreamCreatePriced
  \/ IceCreamUpdatePriced
  \/ IceCreamGet

SpecPrice == InitPrice /\ [][NextPrice]_vars

(***************************************************************************)
(* Properties.                                                             *)
(***************************************************************************)
StoredProductIds == {products[i].key : i \in 1..Len(products)}

StoredCategoryIds == {categories[i].key : i \in 1..Len(categories)}

\* The body names a category that is in the store.
RefersToStoredCategory(body) ==
  /\ Prop(body, "categoria_id").t = "number"
  /\ Prop(body, "categoria_id").v \in StoredCategoryIds

\* The body has a positive categoria_id that is the id of no stored category.
NamesMissingCategory(body) ==
  /\ Prop(body, "categoria_id").t = "number"
  /\ Prop(body, "categoria_id").v > 0
  /\ Prop(body, "categoria_id").v \notin StoredCategoryIds

\* C1 as stated: iceCreamCreate with a categoria_id that is not in the store
\* fails with NOT_FOUND whatever the other fields are, and inserts nothing.
C1_Original ==
  [][(last'.op = "iceCreamCreate" /\ NamesMissingCategory(last'.body))
       => (last'.code = "NOT_FOUND" /\ products' = products)]_vars

\* C1 amended: iceCreamCreate with a categoria_id that is not in the store
\* fails and inserts nothing; the error is NOT_FOUND when the body passes the
\* create schema and VALIDATION_ERROR when it does not.
C1_CreateMissingCategory ==
  [][(last'.op = "iceCreamCreate" /\ NamesMissingCategory(last'.body))
       => /\ last'.outcome = "throw"
          /\ last'.code = (IF iceCreamCreateSchemaValid(last'.body) THEN "NOT_FOUND" ELSE "VALIDATION_ERROR")
          /\ products' = products]_vars

C1_Witness ==
  /\ last.op = "iceCreamCreate"
  /\ last.code = "NOT_FOUND"
  /\ Prop(last.body, "categoria_id") = Num(6)
  /\ 6 \notin StoredCategoryIds

\* C2: a call that ends in VALIDATION_ERROR leaves the item map, the category
\* map and the category-id counter as they were before the call.
C2_ValidationBeforeWrite ==
  [][last'.code = "VALIDATION_ERROR"
       => (products' = products /\ categories' = categories /\ currentCategoryId' = currentCategoryId)]_vars

C2_Witness ==
  /\ last.op = "categoryCreate"
  /\ last.code = "VALIDATION_ERROR"
  /\ currentCategoryId = 6
  /\ Len(products) > 0

\* The five default categories: ids 1..5, display orders 1..5, all active.
SeededCategories ==
  /\ Len(categories) = 5
  /\ \A i \in 1..5 :
       /\ categories[i].key = i
       /\ Prop(categories[i].value, "categoria_id") = Num(i)
       /\ Prop(categories[i].value, "ordem_exibicao") = Num(i)
       /\ Prop(categories[i].value, "ativa") = Bool(TRUE)

C4_Original == \A i, j \in 1..Len(handedOut) : i < j => handedOut[i] # handedOut[j]

\* C4 amended: between two calls of clearCategories no id is handed out
\* twice, also after the category that had it was deleted, and every stored
\* category has an id handed out since the last clearCategories.
C4_NoReuseBetweenClears ==
  /\ \A i, j \in (epochStart + 1)..Len(handedOut) : i < j => handedOut[i] # handedOut[j]
  /\ \A i, j \in 1..Len(categories) : i < j => categories[i].key # categories[j].key
  /\ \A id \in StoredCategoryIds : \E i \in (epochStart + 1)..Len(handedOut) : handedOut[i] = id

C4_Witness ==
  /\ last.op = "categoryCreate"
  /\ last.outcome = "return"
  /\ 1 \notin StoredCategoryIds
  /\ Len(categories) = 5
  /\ epochStart = 0

\* C5: the store never holds more than MAX_PRODUCTS products; a create that
\* reaches addProduct with MAX_PRODUCTS products stored throws the capacity
\* error and leaves the product map unchanged.
C5_Capacity ==
  [][/\ Len(products) <= MAX_PRODUCTS
     /\ Len(products') <= MAX_PRODUCTS
     /\ (/\ last'.op = "iceCreamCreate"
         /\ Len(products) = MAX_PRODUCTS
         /\ iceCreamCreateSchemaValid(last'.body)
         /\ RefersToStoredCategory(last'.body))
          => /\ last'.outcome = "throw"
             /\ last'.code = "Error"
             /\ last'.message = "Maximum products limit reached"
             /\ products' = products]_vars

C5_Witness ==
  /\ last.op = "iceCreamCreate"
  /\ last.code = "Error"
  /\ Len(products) = MAX_PRODUCTS

\* C6: iceCreamDelete of a well-formed id that is not in the product map, and
\* categoryDelete of a positive id that is not in the category map, throw
\* NOT_FOUND and change nothing in the store.
C6_DeleteAbsent ==
  [][/\ (/\ last'.op = "iceCreamDelete"
         /\ ZUuid(Prop(last'.params, "produto_id"))
         /\ Prop(last'.params, "produto_id").v \notin StoredProductIds)
          => (last'.outcome = "throw" /\ last'.code = "NOT_FOUND" /\ UNCHANGED storeVars)
     /\ (/\ last'.op = "categoryDelete"
         /\ ZPositive(CoerceNumber(Prop(last'.params, "categoria_id")))
         /\ CoerceNumber(Prop(last'.params, "categoria_id")).v \notin StoredCategoryIds)
          => (last'.outcome = "throw" /\ last'.code = "NOT_FOUND" /\ UNCHANGED storeVars)]_vars

\* The product was created and deleted before this delete.
C6_Witness ==
  /\ last.op = "iceCreamDelete"
  /\ last.code = "NOT_FOUND"
  /\ Prop(last.params, "produto_id") = Str(UuidOf(1))
  /\ uuidsIssued >= 1

\* The step is an iceCreamUpdate or iceCreamDelete call for the product id.
TargetsProduct(l, id) ==
  l.op \in {"iceCreamUpdate", "iceCreamDelete"} /\ Prop(l.params, "produto_id") = Str(id)

\* C7: a created product holds the categoria_id of the request; every step
\* other than an update or delete of that product keeps the product and its
\* categoria_id, deleting the category included; iceCreamGet returns the
\* stored product.
C7_CategoryKept ==
  [][/\ (last'.op = "iceCreamCreate" /\ last'.outcome = "return")
          => Prop(MapGet(products', Prop(last'.data, "produto_id").v), "categoria_id")
               = Prop(last'.body, "categoria_id")
     /\ \A i \in 1..Len(products) :
          ~TargetsProduct(last', products[i].key)
            => /\ products[i].key \in {products'[j].key : j \in 1..Len(products')}
               /\ Prop(MapGet(products', products[i].key), "categoria_id")
                    = Prop(products[i].value, "categoria_id")
     /\ (last'.op = "iceCreamGet" /\ Prop(last'.params, "produto_id").v \in StoredProductIds)
          => /\ last'.outcome = "return"
             /\ last'.data = MapGet(products, Prop(last'.params, "produto_id").v)]_vars

\* iceCreamGet returned a product whose category has been deleted.
C7_Witness ==
  /\ last.op = "iceCreamGet"
  /\ last.outcome = "return"
  /\ Prop(last.data, "categoria_id") = Num(1)
  /\ Prop(last.data, "dateCreated") = Prop(last.data, "dateModified")
  /\ 1 \notin StoredCategoryIds

\* The default the service declares for an optional field of the create request.
DeclaredDefault(k) ==
  CASE k = "destaque" -> Bool(FALSE)
    [] k = "exibir_precos" -> Bool(TRUE)
    [] k = "disponibilidade_status" -> Str("disponivel")
    [] k = "nivel_detalhamento_nutricional" -> Str("basico")
    [] OTHER -> Null

\* C8: an iceCreamGet that directly follows a successful iceCreamCreate and
\* asks for the returned id returns the entity the create returned; each
\* field of it is the submitted value, or the declared default when the
\* request omitted the field.
C8_RoundTrip ==
  [][(/\ last.op = "iceCreamCreate"
      /\ last.outcome = "return"
      /\ last'.op = "iceCreamGet"
      /\ Prop(last'.params, "produto_id") = Prop(last.data, "produto_id"))
       => /\ last'.outcome = "return"
          /\ last'.data = last.data
          /\ \A k \in IceCreamKeys :
               Prop(last'.data, k) = (IF k \in DOMAIN last.body.v THEN last.body.v[k] ELSE DeclaredDefault(k))]_vars

\* iceCreamGet returned a product as it was created from a request with
\* only the required fields and from one with every field.
C8_Witness ==
  /\ last.op = "iceCreamGet"
  /\ last.outcome = "return"
  /\ Prop(last.data, "produto_id") = Str(UuidOf(2))
  /\ Prop(last.data, "exibir_precos") = Bool(FALSE)
  /\ Prop(last.data, "nome_sorvete") = Str(NameOleoAcute)
  /\ Len(products) = 2
  /\ Prop(products[1].value, "destaque") = Bool(FALSE)
  /\ Prop(products[1].value, "formato_preco_principal") = Null

\* C9: after a successful iceCreamUpdate every field of the update schema
\* has, in the stored product, the value of the request body, and the stored
\* product has no other keys than these, produto_id and the two dates; a
\* body that lacks a field of the schema is rejected with VALIDATION_ERROR
\* and the product map is unchanged.
C9_FullReplace ==
  [][/\ (last'.op = "iceCreamUpdate" /\ last'.outcome = "return")
          => LET stored == MapGet(products', Prop(last'.params, "produto_id").v) IN
             /\ \A k \in IceCreamKeys : Prop(stored, k) = Prop(last'.body, k)
             /\ DOMAIN stored.v = IceCreamKeys \cup {"produto_id", "dateCreated", "dateModified"}
     /\ (/\ last'.op = "iceCreamUpdate"
         /\ ZUuid(Prop(last'.params, "produto_id"))
         /\ last'.body.t = "object"
         /\ ~(IceCreamKeys \subseteq DOMAIN last'.body.v))
          => (last'.code = "VALIDATION_ERROR" /\ products' = products)]_vars

\* An update with destaque = false succeeded on the only product created.
C9_Witness ==
  /\ last.op = "iceCreamUpdate"
  /\ last.outcome = "return"
  /\ uuidsIssued = 1
  /\ Prop(last.data, "destaque") = Bool(FALSE)
  /\ Prop(last.data, "descricao") = Str("Sorvete artesanal")
  /\ 6 \in StoredCategoryIds

\* C10: in the list iceCreamList returns no product that is not featured
\* comes before a featured one, and two products with the same featured flag
\* are in ascending order of their names.
C10_ListOrder ==
  (last.op = "iceCreamList" /\ last.outcome = "return")
    => \A i, j \in 1..Len(last.data.v) :
         i < j =>
           LET a == last.data.v[i]
               b == last.data.v[j]
           IN  /\ ~(Prop(a, "destaque") = Bool(FALSE) /\ Prop(b, "destaque") = Bool(TRUE))
               /\ Prop(a, "destaque") = Prop(b, "destaque")
                    => LocaleCompare(Prop(a, "nome_sorvete").v, Prop(b, "nome_sorvete").v) <= 0

\* A listing filtered by category whose order differs from the insertion order.
C10_Witness ==
  /\ last.op = "iceCreamList"
  /\ last.outcome = "return"
  /\ Prop(last.params, "categoria_id") # Undefined
  /\ Len(last.data.v) = 2
  /\ Prop(last.data.v[1], "produto_id") = Str(UuidOf(2))
  /\ Prop(last.data.v[1], "destaque") = Prop(last.data.v[2], "destaque")
  /\ Prop(last.data.v[1], "nome_sorvete") # Prop(last.data.v[2], "nome_sorvete")

\* C11: when iceCreamList returns two products with the same featured flag
\* named 'Óleo' and 'Zabaione', 'Óleo' comes first, although the code unit
\* of its first letter is the greater one.
C11_LocaleOrder ==
  (last.op = "iceCreamList" /\ last.outcome = "return")
    => \A i, j \in 1..Len(last.data.v) :
         (/\ Prop(last.data.v[i], "nome_sorvete") = Str(NameOleoAcute)
          /\ Prop(last.data.v[j], "nome_sorvete") = Str(NameZabaione)
          /\ Prop(last.data.v[i], "destaque") = Prop(last.data.v[j], "destaque"))
           => i < j

\* 'Zabaione' was created first, 'Óleo' second; the listing has 'Óleo' first.
C11_Witness ==
  /\ last.op = "iceCreamList"
  /\ last.outcome = "return"
  /\ Len(last.data.v) = 2
  /\ Prop(last.data.v[1], "nome_sorvete") = Str(NameOleoAcute)
  /\ Prop(last.data.v[1], "produto_id") = Str(UuidOf(2))
  /\ Prop(last.data.v[2], "nome_sorvete") = Str(NameZabaione)
  /\ Prop(last.data.v[1], "destaque") = Bool(FALSE)
  /\ Prop(last.data.v[2], "destaque") = Bool(FALSE)
  /\ NameOleoAcute[1] > NameZabaione[1]

\* C12: when iceCreamCreate or iceCreamUpdate returns, the categoria_id of
\* the product it wrote is the key of a category that is in the category
\* map, before and after the call.
C12_CategoryPresentAtWrite ==
  [][(last'.op \in {"iceCreamCreate", "iceCreamUpdate"} /\ last'.outcome = "return")
       => LET stored == MapGet(products', Prop(last'.data, "produto_id").v) IN
          /\ stored = last'.data
          /\ Prop(stored, "categoria_id").t = "number"
          /\ Prop(stored, "categoria_id").v \in StoredCategoryIds
          /\ MapHas(categories', Prop(stored, "categoria_id").v)]_vars

\* An update wrote category 1 while another product was created in the
\* user-created category 6 and a default category had been deleted.
C12_Witness ==
  /\ last.op = "iceCreamUpdate"
  /\ last.outcome = "return"
  /\ Prop(last.data, "categoria_id") = Num(1)
  /\ 1 \in StoredCategoryIds
  /\ Len(categories) = 5
  /\ \E i \in 1..Len(products) :
       /\ Prop(products[i].value, "categoria_id") = Num(6)
       /\ products[i].key # Prop(last.data, "produto_id").v

\* C13: categoryDelete of a category that is in the store returns, whether
\* or not products reference it; it removes that entry of the category map
\* and no other, and leaves the product map and the id counter unchanged.
C13_DeleteNoCascade ==
  [][(/\ last'.op = "categoryDelete"
      /\ ZPositive(CoerceNumber(Prop(last'.params, "categoria_id")))
      /\ CoerceNumber(Prop(last'.params, "categoria_id")).v \in StoredCategoryIds)
       => LET id == CoerceNumber(Prop(last'.params, "categoria_id")).v IN
          /\ last'.outcome = "return"
          /\ categories' = SelectSeq(categories, LAMBDA e : e.key # id)
          /\ Len(categories') = Len(categories) - 1
          /\ products' = products
          /\ currentCategoryId' = currentCategoryId]_vars

\* Category 6 was deleted while a product with categoria_id 6 is stored.
C13_Witness ==
  /\ last.op = "categoryDelete"
  /\ last.outcome = "return"
  /\ Prop(last.params, "categoria_id") = Str(<<54>>)
  /\ 6 \notin StoredCategoryIds
  /\ \E i \in 1..Len(products) : Prop(products[i].value, "categoria_id") = Num(6)

\* C14: an iceCreamUpdate with a well-formed id and a body that passes the
\* update schema throws NOT_FOUND 'Product not found' when the product is
\* not stored, whether or not the category of the body is stored; it throws
\* 'Category not found' only when the product is stored and the category is
\* not.
C14_ProductCheckedFirst ==
  [][(/\ last'.op = "iceCreamUpdate"
      /\ ZUuid(Prop(last'.params, "produto_id"))
      /\ iceCreamUpdateSchemaValid(last'.body))
       => LET id == Prop(last'.params, "produto_id").v
              cat == Prop(last'.body, "categoria_id").v
          IN  /\ id \notin StoredProductIds
                   => /\ last'.outcome = "throw"
                      /\ last'.code = "NOT_FOUND"
                      /\ last'.message = "Product not found"
              /\ last'.message = "Category not found"
                   <=> (id \in StoredProductIds /\ cat \notin StoredCategoryIds)
              /\ last'.outcome = "throw" => products' = products]_vars

\* The product is absent and so is the category of the body.
C14_Witness ==
  /\ last.op = "iceCreamUpdate"
  /\ last.message = "Product not found"
  /\ iceCreamUpdateSchemaValid(last.body)
  /\ Prop(last.body, "categoria_id").v \notin StoredCategoryIds
  /\ Len(products) > 0

C16_CategoryDefaults ==
  [][(/\ last'.op = "categoryCreate"
      /\ clock' = clock
      /\ last'.body.t = "object"
      /\ DOMAIN last'.body.v = {"nome_categoria"}
      /\ categoryCreateSchemaValid(last'.body))
       => LET id == currentCategoryId + 1 IN
          /\ last'.outcome = "return"
          /\ last'.data = Obj([categoria_id |-> Num(id),
                               nome_categoria |-> last'.body.v["nome_categoria"],
                               descricao_categoria |-> Null,
                               ordem_exibicao |-> Num(1),
                               ativa |-> Bool(TRUE),
                               dateCreated |-> ToISOString(clock),
                               dateModified |-> ToISOString(clock)])
          /\ id \notin StoredCategoryIds
          /\ MapGet(categories', id) = last'.data
          /\ Len(categories') = Len(categories) + 1
          /\ currentCategoryId' = id]_vars

\* The category was created from the name alone, after the clock advanced
\* and after a default category was deleted.
C16_Witness ==
  /\ last.op = "categoryCreate"
  /\ last.outcome = "return"
  /\ DOMAIN last.body.v = {"nome_categoria"}
  /\ Prop(last.data, "categoria_id") = Num(6)
  /\ Prop(last.data, "ordem_exibicao") = Num(1)
  /\ Prop(last.data, "dateCreated") = ToISOString(1)
  /\ Len(categories) = 5

\* The optional fields of the create request for which the service has a
\* default other than null.
DefaultedKeys == {"destaque", "exibir_precos", "disponibilidade_status", "nivel_detalhamento_nutricional"}

\* The request has none of the defaulted fields.
LacksDefaultedKeys(body) == body.t = "object" /\ (DOMAIN body.v) \cap DefaultedKeys = {}

\* C17 as stated: a product created without the optional fields is stored
\* with destaque false, exibir_precos true, disponibilidade_status
\* 'available' and nivel_detalhamento_nutricional 'basic'.
C17_Original ==
  [][(last'.op = "iceCreamCreate" /\ last'.outcome = "return" /\ LacksDefaultedKeys(last'.body))
       => LET stored == MapGet(products', Prop(last'.data, "produto_id").v) IN
          /\ Prop(stored, "destaque") = Bool(FALSE)
          /\ Prop(stored, "exibir_precos") = Bool(TRUE)
          /\ Prop(stored, "disponibilidade_status") = Str("available")
          /\ Prop(stored, "nivel_detalhamento_nutricional") = Str("basic")]_vars

\* C17 amended: a product created without the optional fields is stored
\* with destaque false, exibir_precos true, disponibilidade_status
\* 'disponivel' and nivel_detalhamento_nutricional 'basico', both values of
\* the enumerations the validator accepts; the data the validator returns
\* for the request has none of the four fields.
C17_ServiceDefaults ==
  [][(last'.op = "iceCreamCreate" /\ last'.outcome = "return" /\ LacksDefaultedKeys(last'.body))
       => LET stored == MapGet(products', Prop(last'.data, "produto_id").v) IN
          /\ Prop(stored, "destaque") = Bool(FALSE)
          /\ Prop(stored, "exibir_precos") = Bool(TRUE)
          /\ Prop(stored, "disponibilidade_status") = Str("disponivel")
          /\ Prop(stored, "nivel_detalhamento_nutricional") = Str("basico")
          /\ ZEnum(Prop(stored, "disponibilidade_status"), ICE_CREAM_AVAILABILITY_STATUS)
          /\ ZEnum(Prop(stored, "nivel_detalhamento_nutricional"), ICE_CREAM_NUTRITIONAL_LEVEL)
          /\ \A k \in DefaultedKeys : Prop(iceCreamCreateSchemaData(last'.body), k) = Undefined]_vars

\* A create from a request with the required fields only has returned.
C17_Witness ==
  /\ last.op = "iceCreamCreate"
  /\ last.outcome = "return"
  /\ LacksDefaultedKeys(last.body)
  /\ Prop(last.data, "produto_id").v \in StoredProductIds
  /\ Prop(MapGet(products, Prop(last.data, "produto_id").v), "exibir_precos") = Bool(TRUE)

\* The names of the service operations the handlers call.
HandledOps ==
  {"iceCreamList", "iceCreamCreate", "iceCreamGet", "iceCreamUpdate", "iceCreamDelete",
   "categoryList", "categoryCreate", "categoryGet", "categoryUpdate", "categoryDelete"}

\* C18: the handler answers a successful create with 201 and any other
\* successful call with 200, a VALIDATION_ERROR with 400 and a NOT_FOUND with
\* 404, each with a structured body; any other failure is passed to next()
\* and gets the unstructured 500 of the generic handler.
C18_HttpStatus ==
  last.op \in HandledOps
    => LET r == Response(last) IN
       /\ (last.outcome = "return" /\ last.op \in {"iceCreamCreate", "categoryCreate"})
            => (r.status = 201 /\ r.json = successResponse(last.data) /\ ~r.next)
       /\ (last.outcome = "return" /\ last.op \notin {"iceCreamCreate", "categoryCreate"})
            => (r.status = 200 /\ r.json = successResponse(last.data) /\ ~r.next)
       /\ last.code = "VALIDATION_ERROR"
            => (r.status = 400 /\ r.json = errorResponse(last.message, "VALIDATION_ERROR") /\ ~r.next)
       /\ last.code = "NOT_FOUND"
            => (r.status = 404 /\ r.json = errorResponse(last.message, "NOT_FOUND") /\ ~r.next)
       /\ (last.outcome = "throw" /\ last.code \notin {"VALIDATION_ERROR", "NOT_FOUND"})
            => (r.next /\ r.status = 500 /\ r.json = Undefined)

\* The create handler passed the capacity error of the store to next().
C18_Witness ==
  /\ last.op = "iceCreamCreate"
  /\ last.outcome = "throw"
  /\ last.message = "Maximum products limit reached"
  /\ Response(last).next
  /\ Response(last).status = 500
  /\ Len(products) = MAX_PRODUCTS

\* C19: a product returned by iceCreamCreate is stored with dateCreated =
\* dateModified = the time of the call; a successful iceCreamUpdate stores
\* the time of the call as dateModified and keeps dateCreated; the clock
\* never goes back, and no stored product has a dateModified before its
\* dateCreated.  (A step that changes the clock is not a call.)
C19_Dates ==
  [][/\ clock' >= clock
     /\ (last'.op = "iceCreamCreate" /\ last'.outcome = "return" /\ clock' = clock)
          => LET stored == MapGet(products', Prop(last'.data, "produto_id").v) IN
             /\ Prop(stored, "dateCreated") = ToISOString(clock)
             /\ Prop(stored, "dateModified") = ToISOString(clock)
     /\ (last'.op = "iceCreamUpdate" /\ last'.outcome = "return" /\ clock' = clock)
          => LET id == Prop(last'.params, "produto_id").v IN
             /\ Prop(MapGet(products', id), "dateModified") = ToISOString(clock)
             /\ Prop(MapGet(products', id), "dateCreated") = Prop(MapGet(products, id), "dateCreated")
     /\ \A i \in 1..Len(products') :
          CompareSeq(Prop(products'[i].value, "dateModified").v,
                     Prop(products'[i].value, "dateCreated").v) >= 0]_vars

\* A product created at time 0 was updated at time 1 from a body that has
\* a dateCreated key of its own.
C19_Witness ==
  /\ last.op = "iceCreamUpdate"
  /\ last.outcome = "return"
  /\ "dateCreated" \in DOMAIN last.body.v
  /\ Prop(last.data, "dateCreated") = ToISOString(0)
  /\ Prop(last.data, "dateModified") = ToISOString(1)
  /\ clock = 1

\* The identifiers of the products that were created and then deleted: the
\* identifiers issued that are no longer keys of the product map.
DeletedProductIds == {UuidOf(n) : n \in 1..uuidsIssued} \ StoredProductIds

\* The step is a call on the product with this identifier.
ReadsOrWritesProduct(l, id) ==
  l.op \in {"iceCreamGet", "iceCreamUpdate", "iceCreamDelete"} /\ Prop(l.params, "produto_id") = Str(id)

\* C20 as stated: a deleted product stays deleted, every later iceCreamGet,
\* iceCreamUpdate and iceCreamDelete of its id throws NOT_FOUND, and no
\* later iceCreamCreate returns its id.
C20_Original ==
  [][\A id \in DeletedProductIds :
       /\ id \in DeletedProductIds'
       /\ ReadsOrWritesProduct(last', id) => (last'.outcome = "throw" /\ last'.code = "NOT_FOUND")
       /\ (last'.op = "iceCreamCreate" /\ last'.outcome = "return")
            => Prop(last'.data, "produto_id") # Str(id)]_vars

\* C20 amended: a deleted product stays deleted, every later iceCreamGet,
\* iceCreamUpdate and iceCreamDelete of its id throws and leaves the product
\* map unchanged, with NOT_FOUND unless it is an iceCreamUpdate whose body
\* fails the update schema, which throws VALIDATION_ERROR; no later
\* iceCreamCreate returns its id.
C20_DeleteIrreversible ==
  [][\A id \in DeletedProductIds :
       /\ id \in DeletedProductIds'
       /\ ReadsOrWritesProduct(last', id)
            => /\ last'.outcome = "throw"
               /\ last'.code = (IF last'.op = "iceCreamUpdate" /\ ~iceCreamUpdateSchemaValid(last'.body)
                                THEN "VALIDATION_ERROR" ELSE "NOT_FOUND")
               /\ products' = products
       /\ (last'.op = "iceCreamCreate" /\ last'.outcome = "return")
            => /\ Prop(last'.data, "produto_id") # Str(id)
               /\ Prop(last'.data, "produto_id").v \notin StoredProductIds]_vars

\* The first product was deleted, a second one was created, and an update
\* of the first with a body the schema accepts was refused.
C20_Witness ==
  /\ last.op = "iceCreamUpdate"
  /\ last.code = "NOT_FOUND"
  /\ last.message = "Product not found"
  /\ Prop(last.params, "produto_id") = Str(UuidOf(1))
  /\ UuidOf(1) \in DeletedProductIds
  /\ UuidOf(2) \in StoredProductIds

(***************************************************************************)
(* Concurrent callers.                                                     *)
(***************************************************************************)
MidCall(c) == calls[c].pc = "checked"

\* C21: a service call runs to its end without suspending: from its reads to
\* its last write the caller holds the thread, the store is the one it read,
\* and no other caller is part-way through a call of its own.
C21_RunsToCompletion ==
  \A c \in Callers :
    MidCall(c) => /\ running = c
                  /\ storeVars = calls[c].seen
                  /\ \A d \in Callers \ {c} : ~MidCall(d)

\* A caller has made the category check of iceCreamCreate and not yet added
\* the product, while another caller's categoryDelete is waiting to be served.
C21_Witness ==
  \E c \in Callers, d \in Callers :
    /\ c # d
    /\ MidCall(c) /\ calls[c].op = "iceCreamCreate"
    /\ calls[d].pc = "pending" /\ calls[d].op = "categoryDelete"
    /\ Len(products) > 0

\* C22 as stated: between a caller's check and its act, another caller's
\* pending store operation can take effect.
C22_Original ==
  \A c \in Callers, d \in Callers :
    (c # d /\ MidCall(c) /\ calls[d].pc = "pending") => ENABLED Check(d)

\* C22: the store has no lock, yet a check-then-act sequence is atomic in
\* this code: when the act runs, the check still passes on the store the act
\* writes to, and a product that iceCreamCreate adds names a stored category.
C22_CheckHoldsAtAct ==
  [][\A c \in Callers :
       (MidCall(c) /\ calls'[c].pc = "idle")
         => /\ serviceCheck(calls[c]) = Undefined
            /\ (calls[c].op = "iceCreamCreate" /\ last'.outcome = "return")
                 => MapHas(categories', Prop(last'.data, "categoria_id").v)]_vars

\* An iceCreamCreate returned a product of category 1 after another caller's
\* categoryDelete of that category had arrived, and the delete is still
\* waiting to be served.
C22_Witness ==
  /\ last.op = "iceCreamCreate" /\ last.outcome = "return"
  /\ \E d \in Callers : calls[d].pc = "pending" /\ calls[d].op = "categoryDelete"
  /\ \E c \in Callers : calls[c].pc = "pending" /\ calls[c].op = "iceCreamDelete"
  /\ MapHas(categories, 1)

(***************************************************************************)
(* Prices.                                                                 *)
(***************************************************************************)
PriceFields == PriceKeys \cup {"formato_preco_principal"}

\* The price fields of a stored product are the ones the body carried, a
\* price the body left out being stored as null.
PricesAsSubmitted(product, body) ==
  \A k \in PriceFields : Prop(product, k) = Coalesce(Prop(body, k), Null)

\* C23: formato_preco_principal is not tied to the price fields: a create, or
\* an update of a stored product, whose body combines any valid format, or
\* null, with any subset of the three prices succeeds, and the product is
\* stored with the format and the prices as submitted.
C23_PricesIndependent ==
  [][/\ (last'.op = "iceCreamCreate" /\ last'.body \in PricedBodies \cup PricedCreateBodies)
          => /\ last'.outcome = "return"
             /\ PricesAsSubmitted(MapGet(products', UuidOf(uuidsIssued')), last'.body)
     /\ (last'.op = "iceCreamUpdate" /\ last'.body \in PricedBodies /\ productExists(UuidOf(1)))
          => /\ last'.outcome = "return"
             /\ PricesAsSubmitted(MapGet(products', UuidOf(1)), last'.body)]_vars

\* A product was created with no principal format and all three prices, and
\* was then updated to the format 'peso' with only the unit price populated.
C23_Witness ==
  /\ last.op = "iceCreamUpdate" /\ last.outcome = "return"
  /\ Prop(MapGet(products, UuidOf(1)), "formato_preco_principal") = Str("peso")
  /\ Prop(MapGet(products, UuidOf(1)), "preco_por_peso") = Null
  /\ Prop(MapGet(products, UuidOf(1)), "preco_por_tamanho") = Null
  /\ Prop(MapGet(products, UuidOf(1)), "preco_por_unidade") = Num(59)
  /\ \E i \in 1..Len(products) :
       /\ Prop(products[i].value, "formato_preco_principal") = Null
       /\ \A k \in PriceKeys : Prop(products[i].value, k) = PriceOf(k)

(***************************************************************************)
(* Identity.                                                               *)
(***************************************************************************)
KeyedByOwnId(m, idKey) == \A i \in 1..Len(m) : Prop(m[i].value, idKey).v = m[i].key

SameIdentity(before, after, idKey) ==
  /\ after # Undefined
  /\ Prop(after, idKey) = Prop(before, idKey)
  /\ Prop(after, "dateCreated") = Prop(before, "dateCreated")

\* C24: updates never change identity: every product is stored under its own
\* produto_id and every category under its own categoria_id, and a successful
\* iceCreamUpdate or categoryUpdate leaves the id and dateCreated of the
\* entity as they were, whatever extra keys the body carries.
C24_IdentityKept ==
  [][/\ KeyedByOwnId(products', "produto_id")
     /\ KeyedByOwnId(categories', "categoria_id")
     /\ (last'.op = "iceCreamUpdate" /\ last'.outcome = "return")
          => LET produto_id == Prop(last'.params, "produto_id").v IN
             /\ SameIdentity(MapGet(products, produto_id), MapGet(products', produto_id), "produto_id")
             /\ SameIdentity(MapGet(products, produto_id), last'.data, "produto_id")
     /\ (last'.op = "categoryUpdate" /\ last'.outcome = "return")
          => LET categoria_id == CoerceNumber(Prop(last'.params, "categoria_id")).v IN
             /\ SameIdentity(MapGet(categories, categoria_id), MapGet(categories', categoria_id), "categoria_id")
             /\ SameIdentity(MapGet(categories, categoria_id), last'.data, "categoria_id")]_vars

\* A product was updated with a body that carried another produto_id and
\* dateCreated, then a category with a body that carried another categoria_id
\* and dateCreated.
C24_Witness ==
  /\ last.op = "categoryUpdate" /\ last.outcome = "return"
  /\ Prop(last.body, "categoria_id") = Num(99)
  /\ Prop(last.body, "dateCreated") # Undefined
  /\ Prop(last.data, "nome_categoria") = Str(CatNameSazonais)
  /\ \E i \in 1..Len(products) :
       /\ Prop(products[i].value, "nome_sorvete") = Str(NameOleo)
       /\ Prop(products[i].value, "produto_id") = Str(UuidOf(1))

(***************************************************************************)
(* Errors.                                                                 *)
(***************************************************************************)
\* C25: a service call that ends in an error, a VALIDATION_ERROR, a NOT_FOUND
\* or the capacity error, leaves the product map, the category map and the
\* category-id counter exactly as they were.
C25_ErrorsChangeNothing ==
  [][last'.outcome = "throw"
       => (products' = products /\ categories' = categories /\ currentCategoryId' = currentCategoryId)]_vars

\* An iceCreamCreate was refused by the capacity check of a full store, after
\* a category had been created.
C25_Witness ==
  /\ last.op = "iceCreamCreate" /\ last.outcome = "throw"
  /\ last.message = "Maximum products limit reached"
  /\ Len(products) = MAX_PRODUCTS
  /\ currentCategoryId > Constructed.currentCategoryId

(***************************************************************************)
(* Reads.                                                                  *)
(***************************************************************************)
ReadOps == {"iceCreamList", "iceCreamGet", "categoryList", "categoryGet"}

\* C26: the read operations never change the store: after iceCreamList,
\* iceCreamGet, categoryList or categoryGet, whether it returned or threw,
\* the product map and the category map hold the same entities in the same
\* order and the counter is the same; the lists are sorted on copies.
C26_ReadsChangeNothing ==
  [][last'.op \in ReadOps
       => (products' = products /\ categories' = categories /\ currentCategoryId' = currentCategoryId)]_vars

\* An iceCreamList returned two products in another order than the store
\* holds them in.
C26_Witness ==
  /\ last.op = "iceCreamList" /\ last.outcome = "return"
  /\ Len(last.data.v) = 2
  /\ Len(products) = 2
  /\ Prop(last.data.v[1], "produto_id") = Str(products[2].key)

(***************************************************************************)
(* Orphaned products.                                                      *)
(***************************************************************************)
\* The stored products whose category is not in the category map.
Orphans == {i \in 1..Len(products) : Prop(products[i].value, "categoria_id").v \notin StoredCategoryIds}

Lists(data, id) == \E j \in 1..Len(data.v) : Prop(data.v[j], "produto_id") = Str(id)

\* C27: a product whose category was deleted can still be fetched, listed
\* and deleted; an iceCreamUpdate of it with a valid body succeeds when the
\* body names a stored category and otherwise, as when it resends the deleted
\* categoria_id, throws NOT_FOUND 'Category not found' and leaves the product
\* map unchanged.
C27_Orphans ==
  [][\A i \in Orphans :
       LET id == products[i].key
           product == products[i].value
           targeted == Prop(last'.params, "produto_id") = Str(id)
       IN  /\ (last'.op = "iceCreamGet" /\ targeted)
                => (last'.outcome = "return" /\ last'.data = product)
           /\ (last'.op = "iceCreamDelete" /\ targeted)
                => (last'.outcome = "return" /\ id \notin {products'[j].key : j \in 1..Len(products')})
           /\ (last'.op = "iceCreamList" /\ categoryFilterSchemaValid(last'.params)
                  /\ Prop(categoryFilterSchemaData(last'.params), "categoria_id")
                        \in {Undefined, Prop(product, "categoria_id")})
                => (last'.outcome = "return" /\ Lists(last'.data, id))
           /\ (last'.op = "iceCreamUpdate" /\ targeted /\ iceCreamUpdateSchemaValid(last'.body))
                => IF RefersToStoredCategory(last'.body)
                   THEN /\ last'.outcome = "return"
                        /\ Prop(MapGet(products', id), "categoria_id") = Prop(last'.body, "categoria_id")
                   ELSE /\ last'.outcome = "throw"
                        /\ last'.code = "NOT_FOUND"
                        /\ last'.message = "Category not found"
                        /\ products' = products]_vars

\* An update that resent the categoria_id of the product's deleted category
\* was refused, with two products in the store.
C27_Witness ==
  /\ last.op = "iceCreamUpdate" /\ last.code = "NOT_FOUND" /\ last.message = "Category not found"
  /\ \E i \in Orphans :
       /\ Prop(last.params, "produto_id") = Str(products[i].key)
       /\ Prop(last.body, "categoria_id") = Prop(products[i].value, "categoria_id")
  /\ Len(products) = 2

(***************************************************************************)
(* Inactive categories.                                                    *)
(***************************************************************************)
\* The stored categories whose ativa is false.
Inactive == {i \in 1..Len(categories) : Prop(categories[i].value, "ativa") = Bool(FALSE)}

Selected(query) ==
  LET categoria_id == Prop(categoryFilterSchemaData(query), "categoria_id") IN
  {products[i].key : i \in {j \in 1..Len(products) :
                               categoria_id = Undefined \/ Prop(products[j].value, "categoria_id") = categoria_id}}

\* C29: iceCreamList with a valid query always returns, never NOT_FOUND: with
\* a category filter exactly the stored products of that category, each once,
\* also when no such category is stored; without a filter every stored
\* product, each once.
C29_ListExact ==
  [][(last'.op = "iceCreamList" /\ categoryFilterSchemaValid(last'.params))
       => /\ last'.outcome = "return"
          /\ Len(last'.data.v) = Cardinality(Selected(last'.params))
          /\ {Prop(last'.data.v[j], "produto_id").v : j \in 1..Len(last'.data.v)} = Selected(last'.params)]_vars

\* A listing filtered by category 1, which is no longer stored, returned the
\* one product orphaned by its deletion and not the product of another
\* category.
C29_Witness ==
  /\ last.op = "iceCreamList" /\ last.outcome = "return"
  /\ Prop(last.params, "categoria_id") = Str(<<49>>)
  /\ 1 \notin StoredCategoryIds
  /\ Len(last.data.v) = 1
  /\ Len(products) = 2

(***************************************************************************)
(* Category ids and the counter.                                           *)
(***************************************************************************)
\* C30: in every state, also after deletions and after clearCategories, the
\* categoria_id of every stored category lies between 1 and the counter, and
\* no two stored categories have the same categoria_id.
C30_IdsWithinCounter ==
  /\ \A i \in 1..Len(categories) :
       /\ Prop(categories[i].value, "categoria_id").v >= 1
       /\ Prop(categories[i].value, "categoria_id").v <= currentCategoryId
  /\ \A i, j \in 1..Len(categories) :
       i # j => Prop(categories[i].value, "categoria_id") # Prop(categories[j].value, "categoria_id")

\* After a clearCategories a category was created, with id 1 again, and
\* updated.
C30_Witness ==
  /\ epochStart > 0
  /\ currentCategoryId = 1
  /\ Len(categories) = 1
  /\ Prop(categories[1].value, "categoria_id") = Num(1)
  /\ Prop(categories[1].value, "nome_categoria") = Str(CatNameSazonais)

====
